---- MODULE Spec2Model ----
(***************************************************************************)
(* The navigation/session controller of banana-browser                    *)
(* (src/src/browser.ts, class BananaBrowser, lines 486-1667) as a state   *)
(* machine.  An async method is cut at its awaits on the network or on an *)
(* image load: one action starts the call and runs to the first such      *)
(* await, and one action per external answer runs the continuation to the *)
(* next await or to the end.                                               *)
(***************************************************************************)
EXTENDS Integers, Sequences, FiniteSets, TLC

VARIABLES
    currentModelKey,      \* browser.ts:489
    currentStyle,         \* browser.ts:490
    geminiAI,             \* browser.ts:487  (TRUE: a client is configured)
    openaiApiKey,         \* browser.ts:488  (TRUE: a key is configured)
    state,                \* browser.ts:491  BrowserState
    history,              \* browser.ts:508
    historyIndex,         \* browser.ts:509  (0-based, -1 when empty)
    sessionImage,         \* browser.ts:512
    sessionClickContext,  \* browser.ts:514
    scrollStack,          \* browser.ts:516
    isScrollingDown,      \* browser.ts:518
    imageCache,           \* browser.ts:480  module-level Map
    tasks,                \* the async calls in flight, with their locals
    requests,             \* number of image-generation requests sent to a provider
    fetches,              \* number of API fetches issued by fetchApiData
    visions,              \* number of vision requests issued by interpretClick
    navigated,            \* (url, model, style) -> image and data of the navigate that succeeded
    replay,               \* the scroll calls made in a row since a page at scrollIndex 0
    keyIn,                \* two (url, model, style) triples given to getCacheKey
    keyOut,               \* the two keys getCacheKey returned for them
    usageIn,              \* what one trackUsage call is given, and the pricing it reads
    usageOut,             \* state.usage after that call
    hnIn,                 \* what the Hacker News API answers to one fetchHackerNews call
    hnOut                 \* how far that call is, and what it returned

vars == << currentModelKey, currentStyle, geminiAI, openaiApiKey, state, history,
           historyIndex, sessionImage, sessionClickContext, scrollStack,
           isScrollingDown, imageCache, tasks, requests, fetches, visions,
           navigated, replay, keyIn, keyOut, usageIn, usageOut,
           hnIn, hnOut >>

ctlVars == << currentModelKey, currentStyle, geminiAI, openaiApiKey, state, history,
              historyIndex, sessionImage, sessionClickContext, scrollStack,
              isScrollingDown, imageCache, tasks, requests, fetches, visions,
              navigated, replay >>

keyVars == << keyIn, keyOut >>

usageVars == << usageIn, usageOut >>

\* The variables of the functions studied on their own
hnVars == << hnIn, hnOut >>

fnVars == << keyVars, usageVars, hnVars >>

-----------------------------------------------------------------------------
(* Bounds of the model *)

MaxGen == 3          \* image-generation requests in one run
MaxFetch == 2        \* API fetches in one run
MaxVision == 1       \* click interpretations in one run
MaxHistory == 2      \* length of the history list
MaxKeyLen == 2       \* length of the urls and styles given to getCacheKey
MaxIds == 20         \* story ids in the answer of topstories.json
MaxOdd == 3          \* leading stories whose item request may be answered with no item

-----------------------------------------------------------------------------
(* Values *)

\* A string is a sequence of pieces; "|" is the separator character of a cache key.
Null == << >>                 \* JS null (a url, an image, api data, an error)
Undefined == << 0 >>          \* JS undefined, as read past the end of an array

\* The image a provider returns for generation request number n.
Image(n) == << n >>
\* drawPointerOnImage: a copy of the image with the pointer drawn at (x, y).
drawPointerOnImage(img, x, y) == img \o << x, y >>

\* !v for a url, api data or a text, and for an image (which may be undefined)
Falsy(v) == v = Null
NoImage(img) == img = Null \/ img = Undefined

EspnUrl == << "espn" >>       \* its data names article images (reference images)
HnUrl == << "hn" >>
Urls == { EspnUrl, HnUrl }

\* processApiResponse / processHN*: the normalized data of fetch number n of url.
\* A JSON null body of an unknown API passes through as null.
ApiData(url, n) == << url, n >>

\* IMAGE_MODELS: the provider of each model key.
ImageModels == { << "flash" >>, << "pro" >>, << "gpt-image" >>, << "gpt-image-mini" >> }
Provider(model) ==
    IF model \in { << "gpt-image" >>, << "gpt-image-mini" >> } THEN "openai" ELSE "gemini"
\* The models setModel is called with: the selector's first option (main.ts:68),
\* which is also the constructor's model.
Models == { << "flash" >> }

\* STYLE_PRESETS.modern is the initial style; a second style stands for any other.
StyleModern == << "modern" >>
StyleHacker == << "hacker" >>
Styles == { StyleModern, StyleHacker }

\* Click coordinates
Coords == { << 1, 2 >> }

-----------------------------------------------------------------------------
(* getCacheKey, browser.ts:482-484:  `${url}|${model}|${style}` *)

\* The key without its style
getCacheKeyNoStyle(url, model, style) == url \o << "|" >> \o model

getCacheKey(url, model, style) == url \o << "|" >> \o model \o << "|" >> \o style

-----------------------------------------------------------------------------
(* Messages: a message is a sequence of words *)

HttpError == << "HTTP", "500:", "Internal", "Server", "Error" >>          \* browser.ts:837
NoImageGemini == << "No", "image", "generated", "in", "response" >>      \* browser.ts:1299
NoImageOpenAI == << "No", "image", "generated", "in", "OpenAI", "response" >>  \* browser.ts:1353
NoGeminiKey == << "Gemini", "API", "key", "not", "configured" >>         \* browser.ts:1236
NoOpenAIKey == << "OpenAI", "API", "key", "not", "configured" >>         \* browser.ts:1307
NoVisionKey == << "No", "API", "key", "configured", "for", "click", "interpretation" >>  \* browser.ts:1644
PointerLoadError == << "Failed", "to", "load", "image", "for", "pointer", "overlay" >>  \* browser.ts:1182
\* What a provider may answer instead of a result
QuotaError == << "Quota", "exceeded.", "Please", "Retry", "in", "30s" >>
ProviderErrors == { QuotaError }

\* /retry in (\d+)/i on the words of a message: a word ending in "retry" (any
\* case), the word "in" (any case), a word starting with digits.
EndsWithRetry(word) == word \in { "retry", "Retry", "RETRY" }
IsIn(word) == word \in { "in", "In", "IN" }
LeadingDigits(word) ==
    CASE word = "30s" -> "30"
      [] word = "30" -> "30"
      [] word = "5" -> "5"
      [] OTHER -> ""
rateLimitMatch(message) ==
    LET hits == { i \in 1..(Len(message) - 2) :
                    /\ EndsWithRetry(message[i])
                    /\ IsIn(message[i + 1])
                    /\ LeadingDigits(message[i + 2]) # "" }
    IN  IF hits = {} THEN ""
        ELSE LeadingDigits(message[(CHOOSE i \in hits : \A j \in hits : i <= j) + 2])

RateLimited(seconds) ==
    << "Rate", "limited.", "Please", "wait", seconds, "seconds", "and", "try", "again." >>

-----------------------------------------------------------------------------
(* Usage metadata of a provider response and the pricing table *)

NoMeta == [ present |-> FALSE, promptTokenCount |-> 0, candidatesTokenCount |-> 0,
            input_tokens |-> 0, output_tokens |-> 0, text_tokens |-> 0, image_tokens |-> 0 ]
GeminiMeta == [ NoMeta EXCEPT !.present = TRUE, !.promptTokenCount = 1000,
                              !.candidatesTokenCount = 500 ]
OpenAIMeta == [ NoMeta EXCEPT !.present = TRUE, !.input_tokens = 1000, !.output_tokens = 500,
                              !.text_tokens = 600, !.image_tokens = 400 ]
Metas(provider) == IF provider = "openai" THEN { OpenAIMeta } ELSE { GeminiMeta }

\* PRICING, in billionths of a dollar per token (0.075 / 1_000_000 dollars = 75)
PRICING(key) ==
    CASE key = << "flash" >> -> [ input |-> 75, output |-> 300, imageInput |-> 0, imageOutput |-> 30000 ]
      [] key = << "pro" >> -> [ input |-> 2000, output |-> 12000, imageInput |-> 0, imageOutput |-> 120000 ]
      [] key = << "gpt-image" >> -> [ input |-> 5000, output |-> 0, imageInput |-> 8000, imageOutput |-> 32000 ]
      [] key = << "gpt-image-mini" >> -> [ input |-> 2500, output |-> 0, imageInput |-> 2500, imageOutput |-> 8000 ]
      [] key = << "text" >> -> [ input |-> 75, output |-> 300, imageInput |-> 0, imageOutput |-> 0 ]
      [] key = << "gpt-5-mini" >> -> [ input |-> 250, output |-> 1000, imageInput |-> 0, imageOutput |-> 0 ]

-----------------------------------------------------------------------------
(* The controller object as one record, so that a method is a function of it *)

World ==
    [ currentModelKey |-> currentModelKey, currentStyle |-> currentStyle,
      geminiAI |-> geminiAI, openaiApiKey |-> openaiApiKey, state |-> state,
      history |-> history, historyIndex |-> historyIndex, sessionImage |-> sessionImage,
      sessionClickContext |-> sessionClickContext, scrollStack |-> scrollStack,
      isScrollingDown |-> isScrollingDown, imageCache |-> imageCache, tasks |-> tasks,
      requests |-> requests, fetches |-> fetches, visions |-> visions,
      navigated |-> navigated ]

Becomes(w) ==
    /\ currentModelKey' = w.currentModelKey
    /\ currentStyle' = w.currentStyle
    /\ geminiAI' = w.geminiAI
    /\ openaiApiKey' = w.openaiApiKey
    /\ state' = w.state
    /\ history' = w.history
    /\ historyIndex' = w.historyIndex
    /\ sessionImage' = w.sessionImage
    /\ sessionClickContext' = w.sessionClickContext
    /\ scrollStack' = w.scrollStack
    /\ isScrollingDown' = w.isScrollingDown
    /\ imageCache' = w.imageCache
    /\ tasks' = w.tasks
    /\ requests' = w.requests
    /\ fetches' = w.fetches
    /\ visions' = w.visions
    /\ navigated' = w.navigated
    /\ UNCHANGED fnVars

\* updateState, browser.ts:589-592:  this.state = { ...this.state, ...partial }
updateState(w, partial) ==
    [ w EXCEPT !.state = [ f \in DOMAIN w.state |->
                             IF f \in DOMAIN partial THEN partial[f] ELSE w.state[f] ] ]

\* array[i] with a 0-based index: undefined outside the array
At(array, i) == IF i >= 0 /\ i < Len(array) THEN array[i + 1] ELSE Undefined

\* array.slice(0, end)
Slice(array, end) ==
    SubSeq(array, 1, IF end < 0 THEN 0 ELSE IF end > Len(array) THEN Len(array) ELSE end)

\* A call that charges the input tokens alone
trackUsageInputOnly(usage, type, provider, pricing, textPricing, usageMetadata) ==
    [ usage EXCEPT !.estimatedCost =
        @ + usageMetadata.promptTokenCount * (IF type = "image" THEN pricing.input
                                              ELSE textPricing.input) ]

\* trackUsage, browser.ts:770-800: the usage figures after one call, given the
\* provider of the current model and the two pricing entries the call reads
trackUsagePriced(usage, type, provider, pricing, textPricing, usageMetadata) ==
    LET inputTokens == IF usageMetadata.promptTokenCount # 0
                       THEN usageMetadata.promptTokenCount ELSE usageMetadata.input_tokens
        outputTokens == IF usageMetadata.candidatesTokenCount # 0
                        THEN usageMetadata.candidatesTokenCount ELSE usageMetadata.output_tokens
        costIncrement ==
            IF type = "image"
            THEN IF provider = "openai"
                 THEN usageMetadata.text_tokens * pricing.input
                      + usageMetadata.image_tokens * pricing.imageInput
                      + outputTokens * pricing.imageOutput
                 ELSE inputTokens * pricing.input + outputTokens * pricing.imageOutput
            ELSE inputTokens * textPricing.input + outputTokens * textPricing.output
    IN  [ imageGenerations |-> usage.imageGenerations + (IF type = "image" THEN 1 ELSE 0),
          clickInterpretations |-> usage.clickInterpretations + (IF type = "image" THEN 0 ELSE 1),
          totalInputTokens |-> usage.totalInputTokens + inputTokens,
          totalOutputTokens |-> usage.totalOutputTokens + outputTokens,
          estimatedCost |-> usage.estimatedCost + costIncrement ]

\* trackUsage, browser.ts:758-819
trackUsage(w, type, usageMetadata) ==
    [ w EXCEPT !.state.usage =
        trackUsagePriced(w.state.usage, type, Provider(w.currentModelKey),
                         PRICING(w.currentModelKey),
                         IF w.geminiAI THEN PRICING(<< "text" >>)
                                       ELSE PRICING(<< "gpt-5-mini" >>),
                         usageMetadata) ]

-----------------------------------------------------------------------------
(* The async calls in flight *)

TaskIds == { 1, 2 }

NoDecision == [ action |-> "", url |-> Null, reason |-> Null ]

NoRequest == [ endpoint |-> "", model |-> Null, prompt |-> Null, session |-> Null, refs |-> 0 ]

\* The values a call found when it was made (what it must leave alone is stated
\* against them).
Snapshot(w) ==
    [ currentImage |-> w.state.currentImage, history |-> w.history,
      historyIndex |-> w.historyIndex, imageCache |-> w.imageCache,
      scrollStack |-> w.scrollStack, scrollIndex |-> w.state.scrollIndex,
      sessionImage |-> w.sessionImage, requests |-> w.requests,
      currentUrl |-> w.state.currentUrl ]

NoSnapshot ==
    [ currentImage |-> Null, history |-> << >>, historyIndex |-> -1, imageCache |-> << >>,
      scrollStack |-> << >>, scrollIndex |-> 0, sessionImage |-> Null, requests |-> 0,
      currentUrl |-> Null ]

IdleTask ==
    [ pc |-> "idle",          \* idle | fetch | refs | gen | draw | vision | decided
      op |-> "none",          \* the method awaiting: navigate | scrollDown | rerender | handleClick
      click |-> FALSE,        \* the navigate call was made by handleClick, which awaits it
      fresh |-> FALSE,        \* navigate's freshStart
      url |-> Null, cacheKey |-> Null, selected |-> Null, fetchNo |-> 0, apiData |-> Null,
      prompt |-> Null, provider |-> "", refs |-> 0, req |-> 0, request |-> NoRequest,
      newIndex |-> 0,
      image |-> Null, x |-> 0, y |-> 0, imageWithPointer |-> Null,
      text |-> << >>,         \* the text the vision model answered with
      decision |-> NoDecision, pre |-> NoSnapshot ]

InFlight(w) == { t \in TaskIds : w.tasks[t].pc # "idle" }

\* The end of a call, with sessionClickContext left as it is
finishKeepContext(w, t) == [ w EXCEPT !.tasks[t] = IdleTask ]

\* The end of a call; handleClick, awaiting its navigate, then runs
\* this.sessionClickContext = false (browser.ts:1500).
finish(w, t) ==
    [ w EXCEPT !.tasks[t] = IdleTask,
               !.sessionClickContext = IF w.tasks[t].click THEN FALSE ELSE @ ]

-----------------------------------------------------------------------------
(* The catch blocks *)

\* A failing navigate that starts the usage figures afresh
navigateCatchResetUsage(w, t, message) ==
    finish(updateState(w, [ loading |-> FALSE, status |-> << "Error" >>, error |-> message,
                            usage |-> [ imageGenerations |-> 0, clickInterpretations |-> 0,
                                        totalInputTokens |-> 0, totalOutputTokens |-> 0,
                                        estimatedCost |-> 0 ] ]), t)

\* navigate, browser.ts:1123-1140
navigateCatch(w, t, message) ==
    LET seconds == rateLimitMatch(message)
    IN  finish(updateState(w, [ loading |-> FALSE, status |-> << "Error" >>,
                                error |-> IF seconds # "" THEN RateLimited(seconds)
                                                          ELSE message ]), t)

\* scrollDown, browser.ts:1001-1009
scrollDownCatch(w, t, message) ==
    finish(updateState([ w EXCEPT !.isScrollingDown = FALSE ],
                       [ loading |-> FALSE, status |-> << "Error scrolling" >>,
                         error |-> message ]), t)

\* The error is recorded and the loading flag is left set
rerenderCatchKeepLoading(w, t, message) ==
    finish(updateState(w, [ status |-> << "Error re-rendering" >>, error |-> message ]), t)

\* rerender, browser.ts:1039-1046
rerenderCatch(w, t, message) ==
    finish(updateState(w, [ loading |-> FALSE, status |-> << "Error re-rendering" >>,
                            error |-> message ]), t)

\* handleClick, browser.ts:1507-1514
handleClickCatch(w, t, message) ==
    finish(updateState(w, [ loading |-> FALSE, status |-> << "Error interpreting click" >>,
                            error |-> message ]), t)

\* The error leaves the method uncaught
catchNothing(w, t, message) == finish(w, t)

\* An error thrown inside the call of task t reaches the catch of its method.
catch(w, t, message) ==
    CASE w.tasks[t].op = "navigate" -> navigateCatch(w, t, message)
           [] w.tasks[t].op = "scrollDown" -> scrollDownCatch(w, t, message)
           [] w.tasks[t].op = "rerender" -> rerenderCatch(w, t, message)
           [] OTHER -> handleClickCatch(w, t, message)

-----------------------------------------------------------------------------
(* generatePageImage, browser.ts:1187-1229, and the provider calls *)

\* extractImageInfo, browser.ts:661-718: how many images the data names
extractImageInfo(apiData) ==
    IF Falsy(apiData) THEN 0 ELSE IF apiData[1] = EspnUrl THEN 1 ELSE 0

\* buildImagePrompt, browser.ts:1431-1475: the style, the continuity framing, the data
buildImagePrompt(w, apiData) ==
    << w.currentStyle,
       IF NoImage(w.sessionImage) THEN "none"
       ELSE IF w.isScrollingDown THEN "scroll"
       ELSE IF w.sessionClickContext THEN "click"
       ELSE "generic",
       apiData >>

\* The request is sent: generateContent (browser.ts:1273), /images/edits
\* (browser.ts:1402) or /images/generations (browser.ts:1323).
sendRequest(w, t, endpoint, referenceImages) ==
    [ w EXCEPT !.requests = @ + 1,
               !.tasks[t].pc = "gen",
               !.tasks[t].refs = referenceImages,
               !.tasks[t].req = w.requests + 1,
               !.tasks[t].request = [ endpoint |-> endpoint,
                                      model |-> w.currentModelKey,
                                      prompt |-> w.tasks[t].prompt,
                                      session |-> IF NoImage(w.sessionImage) THEN Null
                                                  ELSE w.sessionImage,
                                      refs |-> referenceImages ] ]

\* The edit endpoint is chosen for a session image only, whatever reference
\* images were fetched
dispatchSessionOnly(w, t, referenceImages) ==
    IF w.tasks[t].provider = "openai"
    THEN IF ~w.openaiApiKey THEN catch(w, t, NoOpenAIKey)
         ELSE sendRequest(w, t,
                          IF ~NoImage(w.sessionImage) THEN "edits" ELSE "generations",
                          referenceImages)
    ELSE IF ~w.geminiAI THEN catch(w, t, NoGeminiKey)
         ELSE sendRequest(w, t, "generateContent", referenceImages)

\* generateWithGemini (browser.ts:1231-1282) / generateWithOpenAI (1302-1320) up to
\* the await of the provider's answer
dispatch(w, t, referenceImages) ==
    IF w.tasks[t].provider = "openai"
    THEN IF ~w.openaiApiKey THEN catch(w, t, NoOpenAIKey)
         ELSE sendRequest(w, t,
                          IF ~NoImage(w.sessionImage) \/ referenceImages > 0
                          THEN "edits" ELSE "generations",
                          referenceImages)
    ELSE IF ~w.geminiAI THEN catch(w, t, NoGeminiKey)
         ELSE sendRequest(w, t, "generateContent", referenceImages)

\* generatePageImage up to its first await
generatePageImage(w, t, apiData) ==
    LET w1 == [ w EXCEPT !.tasks[t].prompt = buildImagePrompt(w, apiData),
                         !.tasks[t].provider = Provider(w.currentModelKey) ]
    IN  IF extractImageInfo(apiData) > 0
        THEN [ w1 EXCEPT !.tasks[t].pc = "refs" ]
        ELSE dispatch(w1, t, 0)

-----------------------------------------------------------------------------
(* navigate, browser.ts:1055-1141 *)

\* The entry is pushed and the forward entries are kept
pushHistoryKeepForward(hist, index, entry) == Append(hist, entry)

\* this.history = this.history.slice(0, this.historyIndex + 1); this.history.push(entry)
pushHistory(hist, index, entry) == Append(Slice(hist, index + 1), entry)

\* The session is kept whatever freshStart says
clearSessionNever(w, freshStart) == w

\* The session is cleared whatever freshStart says
clearSessionAlways(w, freshStart) == [ w EXCEPT !.sessionImage = Null, !.scrollStack = << >> ]

\* freshStart, browser.ts:1057-1060
clearSession(w, freshStart) ==
    IF freshStart THEN [ w EXCEPT !.sessionImage = Null, !.scrollStack = << >> ] ELSE w

\* A lookup that finds nothing
cacheLookupMiss(cache, cacheKey) == [ hit |-> FALSE, image |-> Null, apiData |-> Null ]

\* The cache lookup, browser.ts:1063-1064
cacheLookup(cache, cacheKey) ==
    IF cacheKey \in DOMAIN cache
    THEN [ hit |-> TRUE, image |-> cache[cacheKey].image, apiData |-> cache[cacheKey].apiData ]
    ELSE [ hit |-> FALSE, image |-> Null, apiData |-> Null ]

\* The cache hit advances historyIndex without pushing the entry
navigateCachedNoPush(w, url, cached) ==
    updateState([ w EXCEPT !.historyIndex = @ + 1,
                           !.sessionImage = cached.image,
                           !.scrollStack = << cached.image >> ],
                [ loading |-> FALSE, status |-> << "Page loaded (cached)" >>,
                  currentUrl |-> url, currentImage |-> cached.image,
                  currentApiData |-> cached.apiData, scrollIndex |-> 0,
                  scrollDepth |-> 1, error |-> Null ])

\* The cache hit, browser.ts:1065-1083
navigateCached(w, url, cached) ==
    LET h == pushHistory(w.history, w.historyIndex,
                         [ url |-> url, apiData |-> cached.apiData, image |-> cached.image ])
    IN  updateState([ w EXCEPT !.history = h,
                               !.historyIndex = Len(h) - 1,
                               !.sessionImage = cached.image,
                               !.scrollStack = << cached.image >> ],
                    [ loading |-> FALSE, status |-> << "Page loaded (cached)" >>,
                      currentUrl |-> url, currentImage |-> cached.image,
                      currentApiData |-> cached.apiData, scrollIndex |-> 0,
                      scrollDepth |-> 1, error |-> Null ])

\* fetchApiData up to its first await, browser.ts:821-835, 845-849: the Hacker News
\* listing reports a status of its own before it fetches.
fetchApiData(w, url) ==
    LET w1 == IF url = HnUrl
              THEN updateState(w, [ status |-> << "Fetching Hacker News stories..." >> ])
              ELSE w
    IN  [ w1 EXCEPT !.fetches = @ + 1 ]

\* The call of navigate up to its first await (or to its end, on a cache hit)
navigate(w, t, url, freshStart, click) ==
    LET w0 == clearSession(w, freshStart)
        cacheKey == getCacheKey(url, w.currentModelKey, w.currentStyle)
        cached == cacheLookup(w.imageCache, cacheKey)
        selected == << url, w.currentModelKey, w.currentStyle >>
    IN  IF cached.hit
        THEN [ navigateCached(w0, url, cached)
                      EXCEPT !.navigated = (selected :> [ image |-> cached.image,
                                                          apiData |-> cached.apiData ]) @@ @,
                             !.tasks[t] = IdleTask,
                             !.sessionClickContext = IF click THEN FALSE ELSE @ ]
        ELSE fetchApiData(
                    [ updateState(w0, [ loading |-> TRUE, status |-> << "Fetching data..." >>,
                                        currentUrl |-> url, error |-> Null ])
                        EXCEPT !.tasks[t] =
                                 [ w.tasks[t] EXCEPT !.pc = "fetch", !.op = "navigate",
                                                     !.click = click, !.fresh = freshStart,
                                                     !.url = url, !.cacheKey = cacheKey,
                                                     !.selected = selected,
                                                     !.fetchNo = w.fetches + 1,
                                                     !.pre = IF click THEN @ ELSE Snapshot(w) ] ],
                    url)

\* The answer to fetchApiData: data (browser.ts:1096-1102) or an error
navigateFetched(w, t, apiData) ==
    LET w1 == updateState(w, [ status |-> << "Generating webpage image..." >>,
                               currentApiData |-> apiData ])
    IN  generatePageImage([ w1 EXCEPT !.tasks[t].apiData = apiData ], t, apiData)

\* The image of a navigate is dropped when another url has been asked for since
navigateLoadedUnlessStale(w, t, image) ==
    LET tk == w.tasks[t]
        h == pushHistory(w.history, w.historyIndex,
                         [ url |-> tk.url, apiData |-> tk.apiData, image |-> image ])
    IN  IF w.state.currentUrl # tk.url THEN finish(w, t)
        ELSE finish(updateState(
                 [ w EXCEPT !.imageCache = (tk.cacheKey :> [ image |-> image,
                                                            apiData |-> tk.apiData ]) @@ @,
                            !.sessionImage = image,
                            !.scrollStack = << image >>,
                            !.history = h,
                            !.historyIndex = Len(h) - 1,
                            !.navigated = (tk.selected :> [ image |-> image,
                                                            apiData |-> tk.apiData ]) @@ @ ],
                 [ loading |-> FALSE, status |-> << "Page loaded" >>, currentImage |-> image,
                   scrollIndex |-> 0, scrollDepth |-> 1 ]), t)

\* The image arrived, browser.ts:1104-1122
navigateLoaded(w, t, image) ==
    LET tk == w.tasks[t]
        h == pushHistory(w.history, w.historyIndex,
                         [ url |-> tk.url, apiData |-> tk.apiData, image |-> image ])
    IN  finish(updateState(
                 [ w EXCEPT !.imageCache = (tk.cacheKey :> [ image |-> image,
                                                            apiData |-> tk.apiData ]) @@ @,
                            !.sessionImage = image,
                            !.scrollStack = << image >>,
                            !.history = h,
                            !.historyIndex = Len(h) - 1,
                            !.navigated = (tk.selected :> [ image |-> image,
                                                            apiData |-> tk.apiData ]) @@ @ ],
                 [ loading |-> FALSE, status |-> << "Page loaded" >>, currentImage |-> image,
                   scrollIndex |-> 0, scrollDepth |-> 1 ]), t)

-----------------------------------------------------------------------------
(* scrollDown and rerender once the image arrived *)

\* The new image takes the place of the stack instead of being appended to it
scrollDownLoadedAlone(w, t, image) ==
    LET newIndex == w.tasks[t].newIndex
    IN  finish(updateState(
                 [ w EXCEPT !.isScrollingDown = FALSE, !.scrollStack = << image >>,
                            !.sessionImage = image ],
                 [ loading |-> FALSE, scrollIndex |-> newIndex, scrollDepth |-> 1,
                   currentImage |-> image,
                   status |-> << "Scroll position", newIndex + 1, 1 >> ]), t)

\* browser.ts:988-1000
scrollDownLoaded(w, t, image) ==
    LET stack == Append(w.scrollStack, image)
        newIndex == w.tasks[t].newIndex
    IN  finish(updateState(
                 [ w EXCEPT !.isScrollingDown = FALSE, !.scrollStack = stack,
                            !.sessionImage = image ],
                 [ loading |-> FALSE, scrollIndex |-> newIndex, scrollDepth |-> Len(stack),
                   currentImage |-> image,
                   status |-> << "Scroll position", newIndex + 1, Len(stack) >> ]), t)

\* The new image is shown and the scroll stack is left as it was
rerenderLoadedKeepStack(w, t, image) ==
    finish(updateState(
             [ w EXCEPT !.sessionImage = image ],
             [ loading |-> FALSE, status |-> << "Page re-rendered" >>, currentImage |-> image,
               scrollIndex |-> 0 ]), t)

\* The re-rendered image is appended to the scroll stack
rerenderLoadedAppend(w, t, image) ==
    finish(updateState(
             [ w EXCEPT !.scrollStack = Append(@, image), !.sessionImage = image ],
             [ loading |-> FALSE, status |-> << "Page re-rendered" >>, currentImage |-> image,
               scrollIndex |-> 0, scrollDepth |-> 1 ]), t)

\* The re-rendered image is also written into the current history entry
rerenderLoadedIntoEntry(w, t, image) ==
    finish(updateState(
             [ w EXCEPT !.scrollStack = << image >>, !.sessionImage = image,
                        !.history = [ i \in 1..Len(@) |->
                                        IF i = w.historyIndex + 1
                                        THEN [ @[i] EXCEPT !.image = image ] ELSE @[i] ] ],
             [ loading |-> FALSE, status |-> << "Page re-rendered" >>, currentImage |-> image,
               scrollIndex |-> 0, scrollDepth |-> 1 ]), t)

\* browser.ts:1028-1038
rerenderLoaded(w, t, image) ==
    finish(updateState(
             [ w EXCEPT !.scrollStack = << image >>, !.sessionImage = image ],
             [ loading |-> FALSE, status |-> << "Page re-rendered" >>, currentImage |-> image,
               scrollIndex |-> 0, scrollDepth |-> 1 ]), t)

loaded(w, t, image) ==
    CASE w.tasks[t].op = "navigate" -> navigateLoaded(w, t, image)
      [] w.tasks[t].op = "scrollDown" -> scrollDownLoaded(w, t, image)
      [] OTHER -> rerenderLoaded(w, t, image)

\* The answer is taken for an image whatever it holds
generatedUnchecked(w, t, hasImage, usageMetadata) ==
    loaded(trackUsage(w, "image", usageMetadata), t,
           IF hasImage THEN Image(w.tasks[t].req) ELSE Undefined)

\* An answer without an image is followed by a second request
generatedRetrying(w, t, hasImage, usageMetadata) ==
    IF hasImage
    THEN loaded(trackUsage(w, "image", usageMetadata), t, Image(w.tasks[t].req))
    ELSE sendRequest(trackUsage(w, "image", usageMetadata), t,
                     w.tasks[t].request.endpoint, w.tasks[t].refs)

\* The provider's answer, browser.ts:1284-1299 (Gemini: usage is tracked whatever
\* the answer holds) and 1338-1356, 1410-1428 (OpenAI: usage is tracked if present)
generated(w, t, hasImage, usageMetadata) ==
    LET gemini == w.tasks[t].provider = "gemini"
        w1 == IF gemini \/ usageMetadata.present
              THEN trackUsage(w, "image", usageMetadata) ELSE w
    IN  IF hasImage THEN loaded(w1, t, Image(w.tasks[t].req))
        ELSE catch(w1, t, IF gemini THEN NoImageGemini ELSE NoImageOpenAI)

-----------------------------------------------------------------------------
(* goBack, goForward, scrollUp, scrollDown, rerender *)

\* The entry is restored and the scroll stack is left as it was
restoreEntryKeepScroll(w, index, status) ==
    LET entry == w.history[index + 1]
    IN  updateState([ w EXCEPT !.historyIndex = index, !.sessionImage = entry.image ],
                    [ currentUrl |-> entry.url, currentImage |-> entry.image,
                      currentApiData |-> entry.apiData, scrollIndex |-> 0,
                      status |-> << status >> ])

\* What goBack and goForward restore from the entry, browser.ts:903-913, 920-930
restoreEntry(w, index, status) ==
    LET entry == w.history[index + 1]
    IN  updateState([ w EXCEPT !.historyIndex = index,
                               !.scrollStack = << entry.image >>,
                               !.sessionImage = entry.image ],
                    [ currentUrl |-> entry.url, currentImage |-> entry.image,
                      currentApiData |-> entry.apiData, scrollIndex |-> 0,
                      scrollDepth |-> 1, status |-> << status >> ])

\* browser.ts:900-915
goBack(w) ==
    IF w.historyIndex > 0
    THEN restoreEntry(w, w.historyIndex - 1, "Navigated back")
    ELSE w

\* browser.ts:917-932
goForward(w) ==
    IF w.historyIndex < Len(w.history) - 1
    THEN restoreEntry(w, w.historyIndex + 1, "Navigated forward")
    ELSE w

\* browser.ts:577-579
canScrollUp(w) == w.state.scrollIndex > 0

\* The index moves up and the image shown stays
scrollUpKeepImage(w) ==
    IF ~canScrollUp(w) \/ Falsy(w.state.currentUrl)
    THEN w
    ELSE updateState(w, [ scrollIndex |-> w.state.scrollIndex - 1 ])

\* browser.ts:937-951
scrollUp(w) ==
    IF ~canScrollUp(w) \/ Falsy(w.state.currentUrl)
    THEN w
    ELSE LET newIndex == w.state.scrollIndex - 1
             previousImage == At(w.scrollStack, newIndex)
         IN  updateState([ w EXCEPT !.sessionImage = previousImage ],
                              [ scrollIndex |-> newIndex, currentImage |-> previousImage,
                                status |-> << "Scroll position", newIndex + 1,
                                              Len(w.scrollStack) >> ])

\* browser.ts:956-1010, up to the await of generatePageImage
scrollDown(w, t) ==
    IF Falsy(w.state.currentUrl) \/ Falsy(w.state.currentApiData)
       \/ NoImage(w.state.currentImage)
    THEN w
    ELSE LET newIndex == w.state.scrollIndex + 1
         IN  IF newIndex < Len(w.scrollStack)
             THEN LET cachedImage == At(w.scrollStack, newIndex)
                  IN  updateState([ w EXCEPT !.sessionImage = cachedImage ],
                                       [ scrollIndex |-> newIndex,
                                         currentImage |-> cachedImage,
                                         status |-> << "Scroll position", newIndex + 1,
                                                       Len(w.scrollStack) >> ])
             ELSE LET w1 == updateState(w, [ loading |-> TRUE,
                                             status |-> << "Scrolling down..." >> ])
                      w2 == [ w1 EXCEPT !.sessionImage = w.state.currentImage,
                                        !.isScrollingDown = TRUE,
                                        !.tasks[t] =
                                          [ w.tasks[t] EXCEPT !.op = "scrollDown",
                                                              !.url = w.state.currentUrl,
                                                              !.apiData = w.state.currentApiData,
                                                              !.newIndex = newIndex,
                                                              !.pre = Snapshot(w) ] ]
                  IN  generatePageImage(w2, t, w.state.currentApiData)

\* browser.ts:1015-1047, up to the await of generatePageImage
rerender(w, t) ==
    IF Falsy(w.state.currentUrl) \/ Falsy(w.state.currentApiData)
    THEN w
    ELSE LET w1 == updateState(w, [ loading |-> TRUE,
                                    status |-> << "Re-rendering with new style..." >> ])
             w2 == [ w1 EXCEPT !.tasks[t] =
                                 [ w.tasks[t] EXCEPT !.op = "rerender",
                                                     !.url = w.state.currentUrl,
                                                     !.apiData = w.state.currentApiData,
                                                     !.pre = Snapshot(w) ] ]
         IN  generatePageImage(w2, t, w.state.currentApiData)

-----------------------------------------------------------------------------
(* setModel, setStyle and the credentials *)

\* The model is selected whatever keys are configured
setModelUnchecked(w, model) == [ w EXCEPT !.currentModelKey = model ]

\* browser.ts:534-547
setModel(w, model) ==
    IF Provider(model) = "gemini" /\ ~w.geminiAI THEN w
    ELSE IF Provider(model) = "openai" /\ ~w.openaiApiKey THEN w
    ELSE [ w EXCEPT !.currentModelKey = model ]

\* browser.ts:563-571 (a preset key stands for its text)
setStyle(w, style) == [ w EXCEPT !.currentStyle = style ]

\* browser.ts:549-552: the key is stored as given, the empty string too
setOpenAIKey(w, apiKey) == [ w EXCEPT !.openaiApiKey = ~Falsy(apiKey) ]

\* browser.ts:554-557: a client object is made whatever the key is
setGeminiKey(w, apiKey) == [ w EXCEPT !.geminiAI = TRUE ]

-----------------------------------------------------------------------------
(* handleClick, browser.ts:1477-1515, and interpretClick, browser.ts:1517-1666 *)

\* The content of a JSON object of the model's text, as JSON.parse reads it
Bodies == { "nav-espn", "nav-hn", "nav-nourl", "none", "none-noreason", "scroll" }
Object(body) ==
    CASE body = "nav-espn" -> [ action |-> "navigate", url |-> EspnUrl, reason |-> Null ]
      [] body = "nav-hn" -> [ action |-> "navigate", url |-> HnUrl, reason |-> Null ]
      [] body = "nav-nourl" -> [ action |-> "navigate", url |-> Null, reason |-> Null ]
      [] body = "none" -> [ action |-> "none", url |-> Null,
                            reason |-> << "Clicked", "on", "empty", "space" >> ]
      [] body = "none-noreason" -> [ action |-> "none", url |-> Null, reason |-> Null ]
      [] OTHER -> [ action |-> "scroll", url |-> Null, reason |-> Null ]

\* text.match(/\{[\s\S]*\}/): from the first "{" to the last "}" of the text
jsonMatch(text) ==
    LET opens == { i \in 1..Len(text) : text[i] = "{" }
        closes == { i \in 1..Len(text) : text[i] = "}" }
        first == CHOOSE i \in opens : \A j \in opens : i <= j
        lastClose == CHOOSE i \in closes : \A j \in closes : i >= j
    IN  IF opens = {} \/ closes = {} THEN << >>
        ELSE IF first < lastClose THEN SubSeq(text, first, lastClose) ELSE << >>

\* JSON.parse accepts the text of one object
parses(json) == Len(json) = 3 /\ json[1] = "{" /\ json[3] = "}" /\ json[2] \in Bodies

\* A text that cannot be read gives no decision at all
parseDecisionOrNothing(text) ==
    LET json == jsonMatch(text)
    IN  IF json # << >> /\ parses(json) THEN Object(json[2])
        ELSE [ action |-> "", url |-> Null, reason |-> Null ]

\* browser.ts:1650-1665
parseDecision(text) ==
    LET json == jsonMatch(text)
    IN  IF json # << >> /\ parses(json) THEN Object(json[2])
        ELSE [ action |-> "none", url |-> Null,
               reason |-> << "Could", "not", "interpret", "click" >> ]

\* What the vision model may answer
VisionTexts ==
    { << "{", "nav-hn", "}" >>,
      << "Sure!", "{", "nav-espn", "}" >>,
      << "{", "none", "}" >>,
      << "I", "cannot", "tell" >>,
      << "{", "scroll", "}" >>,
      << "{", "none-noreason", "}", "or", "{", "nav-hn", "}" >> }

\* handleClick up to the await in drawPointerOnImage
handleClick(w, t, x, y) ==
    IF NoImage(w.state.currentImage) \/ Falsy(w.state.currentApiData)
    THEN w
    ELSE [ updateState(w, [ loading |-> TRUE,
                                 status |-> << "Interpreting click at", x, y >>,
                                 error |-> Null ])
                  EXCEPT !.tasks[t] = [ w.tasks[t] EXCEPT !.pc = "draw", !.op = "handleClick",
                                                          !.image = w.state.currentImage,
                                                          !.x = x, !.y = y,
                                                          !.pre = Snapshot(w) ] ]

\* The pointer is drawn; the vision request is sent, browser.ts:1522-1645
pointerDrawn(w, t) ==
    LET tk == w.tasks[t]
        imageWithPointer == drawPointerOnImage(tk.image, tk.x, tk.y)
    IN  IF w.geminiAI \/ w.openaiApiKey
        THEN [ w EXCEPT !.tasks[t].pc = "vision",
                             !.tasks[t].imageWithPointer = imageWithPointer,
                             !.tasks[t].provider = IF w.geminiAI THEN "gemini" ELSE "openai",
                             !.tasks[t].apiData = w.state.currentApiData,
                             !.visions = @ + 1 ]
        ELSE catch(w, t, NoVisionKey)

\* The vision model answered with a text, browser.ts:1595-1665
interpreted(w, t, text, usageMetadata) ==
    LET w1 == IF w.tasks[t].provider = "gemini" \/ usageMetadata.present
              THEN trackUsage(w, "text",
                              IF w.tasks[t].provider = "gemini" THEN usageMetadata
                              ELSE [ usageMetadata EXCEPT
                                       !.promptTokenCount = usageMetadata.input_tokens,
                                       !.candidatesTokenCount = usageMetadata.output_tokens ])
              ELSE w
    IN  [ w1 EXCEPT !.tasks[t].pc = "decided",
                         !.tasks[t].text = text,
                         !.tasks[t].decision = parseDecision(text) ]

\* handleClick after interpretClick returned, browser.ts:1492-1506
decided(w, t) ==
    LET result == w.tasks[t].decision
    IN  IF result.action = "navigate" /\ ~Falsy(result.url)
        THEN navigate([ w EXCEPT !.sessionImage = w.tasks[t].imageWithPointer,
                                 !.sessionClickContext = TRUE ],
                      t, result.url, FALSE, TRUE)
        ELSE IF result.action = "none"
        THEN finish(updateState(w, [ loading |-> FALSE,
                                          status |-> IF Falsy(result.reason)
                                                     THEN << "No navigation target found" >>
                                                     ELSE result.reason ]), t)
        ELSE finish(w, t)

-----------------------------------------------------------------------------
(* The scroll calls made in a row: scrollDown calls from a loaded page at
   scrollIndex 0 (with the image it showed), then scrollUp calls (with the number
   of generation requests sent before the first of them). *)

NoReplay == [ phase |-> "off", orig |-> Null, downs |-> 0, ups |-> 0, requests |-> 0 ]

\* A loaded page at scrollIndex 0
LoadedAtTop(w) ==
    /\ InFlight(w) = {}
    /\ ~w.state.loading
    /\ w.state.error = Null
    /\ ~NoImage(w.state.currentImage)
    /\ w.state.scrollIndex = 0

\* A call of scrollDown
replayDown(w, r) ==
    IF r.phase = "down" THEN [ r EXCEPT !.downs = @ + 1 ]
    ELSE IF LoadedAtTop(w)
    THEN [ phase |-> "down", orig |-> w.state.currentImage, downs |-> 1, ups |-> 0,
           requests |-> 0 ]
    ELSE NoReplay

\* A call of scrollUp
replayUp(w, r) ==
    IF r.phase = "down" THEN [ r EXCEPT !.phase = "up", !.ups = 1, !.requests = w.requests ]
    ELSE IF r.phase = "up" /\ r.ups < r.downs THEN [ r EXCEPT !.ups = @ + 1 ]
    ELSE NoReplay

\* An answer to the call of task t
replayAnswer(w, r, t) == IF w.tasks[t].op = "scrollDown" THEN r ELSE NoReplay

-----------------------------------------------------------------------------
(* The initial state *)

\* The keys a constructor or a setter is given: none (or the empty string), or a key
Keys == { << >>, << "key" >> }

\* new BananaBrowser(geminiApiKey, openaiApiKey, model), browser.ts:486-532
Constructed(geminiKey, openaiKey, model) ==
    /\ currentModelKey = model
    /\ currentStyle = StyleModern
    /\ geminiAI = ~Falsy(geminiKey)
    /\ openaiApiKey = ~Falsy(openaiKey)
    /\ state = [ loading |-> FALSE, status |-> << "Ready" >>, currentUrl |-> Null,
                 currentImage |-> Null, currentApiData |-> Null, error |-> Null,
                 usage |-> [ imageGenerations |-> 0, clickInterpretations |-> 0,
                             totalInputTokens |-> 0, totalOutputTokens |-> 0,
                             estimatedCost |-> 0 ],
                 scrollIndex |-> 0, scrollDepth |-> 1 ]
    /\ history = << >>
    /\ historyIndex = -1
    /\ sessionImage = Null
    /\ sessionClickContext = FALSE
    /\ scrollStack = << >>
    /\ isScrollingDown = FALSE
    /\ imageCache = << >>
    /\ tasks = [ t \in TaskIds |-> IdleTask ]
    /\ requests = 0
    /\ fetches = 0
    /\ visions = 0
    /\ navigated = << >>
    /\ replay = NoReplay

\* new BananaBrowser(apiKey) with the key the user entered, main.ts:104
InitController == Constructed(<< "key" >>, << >>, << "flash" >>)

NoUsage ==
    [ imageGenerations |-> 0, clickInterpretations |-> 0, totalInputTokens |-> 0,
      totalOutputTokens |-> 0, estimatedCost |-> 0 ]

\* No getCacheKey call is studied
InitNoKey == keyIn = << >> /\ keyOut = << >>

\* No trackUsage call is studied
InitNoUsage ==
    /\ usageIn = [ type |-> "", provider |-> "", pricing |-> PRICING(<< "flash" >>),
                   textPricing |-> PRICING(<< "text" >>), usageMetadata |-> NoMeta,
                   usage |-> NoUsage ]
    /\ usageOut = [ done |-> FALSE, usage |-> NoUsage ]

\* No fetchHackerNews call is studied
InitNoHn ==
    /\ hnIn = [ ok |-> TRUE, ids |-> << >>, answers |-> << >> ]
    /\ hnOut = [ pc |-> "", ids |-> << >>, error |-> Null, stories |-> << >> ]

Init == InitController /\ InitNoKey /\ InitNoUsage /\ InitNoHn

-----------------------------------------------------------------------------
(* The actions.  In Spec the calls of the navigation methods follow one another:
   a call is made when none is in flight (spec.md section 5). *)

\* handleClick's continuation after interpretClick runs before any other event.
Running == \E t \in TaskIds : tasks[t].pc = "decided"

Quiet == InFlight(World) = {}

\* The task a new call gets
NewTask == CHOOSE t \in TaskIds : tasks[t].pc = "idle" /\ \A u \in TaskIds : tasks[u].pc = "idle" => t <= u

CanGenerate == requests < MaxGen
CanFetch == fetches < MaxFetch
CanPush == historyIndex + 1 < MaxHistory

\* A call navigate(url, ...) stays within the bounds
CanNavigate(url) ==
    /\ CanPush
    /\ \/ cacheLookup(imageCache, getCacheKey(url, currentModelKey, currentStyle)).hit
       \/ CanFetch /\ CanGenerate

Navigate(url, freshStart) ==
    /\ Quiet
    /\ CanNavigate(url)
    /\ Becomes(navigate(World, NewTask, url, freshStart, FALSE))
    /\ replay' = NoReplay

GoBack == Quiet /\ Becomes(goBack(World)) /\ replay' = NoReplay

GoForward == Quiet /\ Becomes(goForward(World)) /\ replay' = NoReplay

ScrollUp == Quiet /\ Becomes(scrollUp(World)) /\ replay' = replayUp(World, replay)

ScrollDown ==
    /\ Quiet
    /\ CanGenerate \/ state.scrollIndex + 1 < Len(scrollStack)
    /\ Becomes(scrollDown(World, NewTask))
    /\ replay' = replayDown(World, replay)

Rerender ==
    /\ Quiet
    /\ CanGenerate
    /\ Becomes(rerender(World, NewTask))
    /\ replay' = NoReplay

HandleClick(x, y) ==
    /\ Quiet
    /\ visions < MaxVision
    /\ Becomes(handleClick(World, NewTask, x, y))
    /\ replay' = NoReplay

SetModel(model) ==
    /\ Quiet
    /\ Becomes(setModel(World, model))
    /\ replay' = NoReplay

SetStyle(style) ==
    /\ Quiet
    /\ Becomes(setStyle(World, style))
    /\ replay' = NoReplay

\* fetchApiData answers: normalized data, or an error.
FetchReturns(t) ==
    /\ ~Running
    /\ tasks[t].pc = "fetch"
    /\ \/ Becomes(navigateFetched(World, t, ApiData(tasks[t].url, tasks[t].fetchNo)))
       \/ Becomes(catch(World, t, HttpError))
    /\ replay' = replayAnswer(World, replay, t)

\* fetchReferenceImages answers with the images it could fetch.
RefsReturn(t) ==
    /\ ~Running
    /\ tasks[t].pc = "refs"
    /\ \E n \in 0..extractImageInfo(tasks[t].apiData) :
          Becomes(dispatch(World, t, n))
    /\ replay' = replayAnswer(World, replay, t)

\* The image provider answers: with or without an image, or with an error.
GenReturns(t) ==
    /\ ~Running
    /\ tasks[t].pc = "gen"
    /\ \/ \E hasImage \in BOOLEAN, usageMetadata \in Metas(tasks[t].provider) :
             Becomes(generated(World, t, hasImage, usageMetadata))
       \/ \E message \in ProviderErrors :
             Becomes(catch(World, t, message))
    /\ replay' = replayAnswer(World, replay, t)

\* The image of drawPointerOnImage loads, or fails to.
DrawReturns(t) ==
    /\ ~Running
    /\ tasks[t].pc = "draw"
    /\ \/ Becomes(pointerDrawn(World, t))
       \/ Becomes(catch(World, t, PointerLoadError))
    /\ replay' = replayAnswer(World, replay, t)

\* The vision model answers with a text, or with an error.
VisionReturns(t) ==
    /\ ~Running
    /\ tasks[t].pc = "vision"
    /\ \/ \E text \in VisionTexts, usageMetadata \in Metas(tasks[t].provider) :
             /\ LET result == parseDecision(text)
                IN  (result.action = "navigate" /\ ~Falsy(result.url))
                       => CanNavigate(result.url)
             /\ Becomes(interpreted(World, t, text, usageMetadata))
       \/ \E message \in ProviderErrors :
             Becomes(catch(World, t, message))
    /\ replay' = replayAnswer(World, replay, t)

ClickContinue(t) ==
    /\ tasks[t].pc = "decided"
    /\ Becomes(decided(World, t))
    /\ replay' = replayAnswer(World, replay, t)

Next ==
    \/ \E url \in Urls, freshStart \in BOOLEAN : Navigate(url, freshStart)
    \/ GoBack
    \/ GoForward
    \/ ScrollUp
    \/ ScrollDown
    \/ Rerender
    \/ \E c \in Coords : HandleClick(c[1], c[2])
    \/ \E model \in Models : SetModel(model)
    \/ \E style \in Styles : SetStyle(style)
    \/ \E t \in TaskIds : FetchReturns(t)
    \/ \E t \in TaskIds : RefsReturn(t)
    \/ \E t \in TaskIds : GenReturns(t)
    \/ \E t \in TaskIds : DrawReturns(t)
    \/ \E t \in TaskIds : VisionReturns(t)
    \/ \E t \in TaskIds : ClickContinue(t)

Spec == Init /\ [][Next]_vars

-----------------------------------------------------------------------------
(* Navigation: history and cache *)

\* A step in which a call navigate(url, ...) is made: from the address bar, or by
\* handleClick on a navigate decision.
NavigateCall(url) ==
    \/ \E freshStart \in BOOLEAN : Navigate(url, freshStart)
    \/ \E t \in TaskIds : /\ ClickContinue(t)
                           /\ tasks[t].decision.action = "navigate"
                           /\ tasks[t].decision.url = url

\* A step in which a navigate call finds the page in the cache
NavigateHit ==
    \E url \in Urls : /\ NavigateCall(url)
                       /\ cacheLookup(imageCache,
                                      getCacheKey(url, currentModelKey, currentStyle)).hit

\* A step in which the image of a navigate call arrives
NavigateLoads ==
    \E t \in TaskIds : /\ GenReturns(t)
                        /\ tasks[t].op = "navigate"
                        /\ state'.status = << "Page loaded" >>

NavigateSucceeds == NavigateHit \/ NavigateLoads

\* C1: a navigate that succeeds (cache hit or miss) at historyIndex = i leaves the
\* history as its entries 0..i followed by the new entry, with historyIndex = i+1,
\* and a goForward called right after changes nothing.
C1_HistoryTruncation ==
    [][ NavigateSucceeds =>
          /\ Len(history') = historyIndex + 2
          /\ SubSeq(history', 1, historyIndex + 1) = SubSeq(history, 1, historyIndex + 1)
          /\ history'[historyIndex + 2] = [ url |-> state'.currentUrl,
                                            apiData |-> state'.currentApiData,
                                            image |-> state'.currentImage ]
          /\ historyIndex' = historyIndex + 1
          /\ goForward(World)' = World' ]_vars

\* A navigate has succeeded and an image of the cache is in no history entry: the
\* entry that held it was a forward entry, and was discarded.
C1_Witness ==
    /\ Quiet
    /\ state.status \in { << "Page loaded" >>, << "Page loaded (cached)" >> }
    /\ historyIndex = Len(history) - 1
    /\ \E k \in DOMAIN imageCache :
          \A i \in 1..Len(history) : history[i].image # imageCache[k].image

\* C2: once a navigate for (url, model, style) has succeeded, a navigate to that
\* url under the same model and style fetches nothing, generates nothing, leaves
\* the usage counters alone, pushes one entry with the cached image and data, and
\* settles with loading false, error null, scrollIndex 0 and scrollDepth 1.
C2_CacheHit ==
    [][ \A url \in Urls :
          LET selected == << url, currentModelKey, currentStyle >>
          IN  (NavigateCall(url) /\ selected \in DOMAIN navigated) =>
                /\ fetches' = fetches
                /\ requests' = requests
                /\ state'.usage = state.usage
                /\ history' = Append(SubSeq(history, 1, historyIndex + 1),
                                     [ url |-> url, apiData |-> navigated[selected].apiData,
                                       image |-> navigated[selected].image ])
                /\ state'.currentImage = navigated[selected].image
                /\ InFlight(World') = {}
                /\ ~state'.loading
                /\ state'.error = Null
                /\ state'.scrollIndex = 0
                /\ state'.scrollDepth = 1 ]_vars

\* A navigate was answered from the cache: the last two history entries carry the
\* same image, which was generated once.
C2_Witness ==
    /\ Quiet
    /\ state.status = << "Page loaded (cached)" >>
    /\ Len(history) >= 2
    /\ history[Len(history)].image = history[Len(history) - 1].image
    /\ state.usage.imageGenerations = 1

-----------------------------------------------------------------------------
(* Session continuity *)

\* The navigate calls awaiting an answer
Awaiting(t) == tasks[t].op = "navigate" /\ tasks[t].pc \in { "fetch", "refs", "gen" }

\* C5: while a navigate called with freshStart = true awaits its data or its image,
\* sessionImage is null and scrollStack is empty, and the generation request it
\* sent carries no continuity image and no continuity framing.
C5_FreshStartReset ==
    \A t \in TaskIds :
       (Awaiting(t) /\ tasks[t].fresh) =>
          /\ sessionImage = Null
          /\ scrollStack = << >>
          /\ tasks[t].pc = "gen" => /\ tasks[t].request.session = Null
                                    /\ tasks[t].request.prompt[2] = "none"

\* The generation request of a fresh navigate is out, and the call found a session
\* image and a scroll stack of two images.
C5_Witness ==
    \E t \in TaskIds :
       /\ Awaiting(t) /\ tasks[t].fresh /\ tasks[t].pc = "gen"
       /\ tasks[t].pre.sessionImage # Null
       /\ Len(tasks[t].pre.scrollStack) = 2

\* C6: while the navigate that handleClick called on a navigate decision awaits its
\* data or its image, sessionImage is the image with the pointer drawn at the click
\* and the click context is set, and the generation request it sent carries that
\* image and the click framing.
C6_ClickContinuity ==
    \A t \in TaskIds :
       (Awaiting(t) /\ tasks[t].click) =>
          LET annotated == drawPointerOnImage(tasks[t].pre.currentImage,
                                              tasks[t].x, tasks[t].y)
          IN  /\ ~tasks[t].fresh
              /\ sessionImage = annotated
              /\ sessionClickContext
              /\ tasks[t].pc = "gen" => /\ tasks[t].request.session = annotated
                                        /\ tasks[t].request.prompt[2] = "click"

\* The generation request of a click-driven navigate is out.
C6_Witness ==
    \E t \in TaskIds :
       /\ Awaiting(t) /\ tasks[t].click /\ tasks[t].pc = "gen"
       /\ tasks[t].request.session = << 1, 1, 2 >>

-----------------------------------------------------------------------------
(* Failures *)

\* A step in which the provider answers the generation request of task t without
\* an image
NoImageAnswer(t) ==
    /\ GenReturns(t)
    /\ \E usageMetadata \in Metas(tasks[t].provider) :
          Becomes(generated(World, t, FALSE, usageMetadata))

\* C7: when the provider answers the generation request of a navigate without an
\* image, the call ends with loading false and a "No image ..." error, and
\* currentImage, history, historyIndex and the image cache are as the call found
\* them.
C7_NoImage ==
    [][ \A t \in TaskIds :
          (NoImageAnswer(t) /\ tasks[t].op = "navigate") =>
             /\ InFlight(World') = {}
             /\ ~state'.loading
             /\ Len(state'.error) >= 2
             /\ SubSeq(state'.error, 1, 2) = << "No", "image" >>
             /\ state'.currentImage = tasks[t].pre.currentImage
             /\ history' = tasks[t].pre.history
             /\ historyIndex' = tasks[t].pre.historyIndex
             /\ imageCache' = tasks[t].pre.imageCache ]_vars

\* A navigate ended on an answer without an image while an earlier page is shown.
C7_Witness ==
    /\ Quiet
    /\ state.status = << "Error" >>
    /\ state.error = NoImageGemini
    /\ state.currentImage = Image(1)
    /\ Len(history) = 1

\* A step in which a fetch, a provider call or the pointer's image load of task t
\* fails
Fails(t) ==
    \/ FetchReturns(t) /\ Becomes(catch(World, t, HttpError))
    \/ GenReturns(t) /\ \E message \in ProviderErrors : Becomes(catch(World, t, message))
    \/ NoImageAnswer(t)
    \/ DrawReturns(t) /\ Becomes(catch(World, t, PointerLoadError))
    \/ VisionReturns(t) /\ \E message \in ProviderErrors : Becomes(catch(World, t, message))

\* The failure messages a catch block can receive
Messages ==
    { HttpError, NoImageGemini, NoImageOpenAI, NoGeminiKey, NoOpenAIKey,
      PointerLoadError } \cup ProviderErrors

\* The call of task t ends in its catch block with this message.
Caught(t, message) ==
    /\ tasks[t].pc # "idle"
    /\ Becomes(catch(World, t, message))

\* C13: whichever of navigate, scrollDown, rerender and handleClick fails, the
\* error field is the wait-time text holding N when the failure message matches
\* 'retry in N', and the failure message itself otherwise.
C13_RetryRewritten ==
    [][ \A t \in TaskIds, message \in Messages :
          Caught(t, message) =>
             state'.error = IF rateLimitMatch(message) # ""
                            THEN RateLimited(rateLimitMatch(message))
                            ELSE message ]_vars

\* C14: the usage counters imageGenerations, clickInterpretations,
\* totalInputTokens, totalOutputTokens and estimatedCost never decrease and are
\* never reset: across every step (failures, cache hits, goBack, goForward and
\* fresh navigations included) each is at least its previous value.
C14_UsageMonotone ==
    [][ /\ state'.usage.imageGenerations >= state.usage.imageGenerations
        /\ state'.usage.clickInterpretations >= state.usage.clickInterpretations
        /\ state'.usage.totalInputTokens >= state.usage.totalInputTokens
        /\ state'.usage.totalOutputTokens >= state.usage.totalOutputTokens
        /\ state'.usage.estimatedCost >= state.usage.estimatedCost ]_vars

\* Two images and one click have been counted, and the last call failed.
C14_Witness ==
    /\ Quiet
    /\ state.usage.imageGenerations = 2
    /\ state.usage.clickInterpretations = 1
    /\ state.usage.estimatedCost > 0
    /\ state.error # Null

\* C10: a failing fetch or provider call ends the navigate, scrollDown, rerender or
\* handleClick it belongs to with loading false and an error message, and a
\* navigate that succeeds, after failures too, ends with error null, loading false
\* and its image displayed.
C10_FailureBoundary ==
    [][ /\ \A t \in TaskIds :
             Fails(t) => /\ tasks'[t].pc = "idle"
                         /\ ~state'.loading
                         /\ state'.error # Null
        /\ NavigateSucceeds => /\ InFlight(World') = {}
                               /\ ~state'.loading
                               /\ state'.error = Null
                               /\ ~NoImage(state'.currentImage)
                               /\ state'.currentImage = history'[Len(history')].image
                               /\ state'.currentUrl = history'[Len(history')].url ]_vars

\* A navigate has loaded its page after a provider call that failed with an error:
\* two requests were sent and one answer was counted.
C10_Witness ==
    /\ Quiet
    /\ state.status = << "Page loaded" >>
    /\ state.error = Null
    /\ requests = 2
    /\ state.usage.imageGenerations = 1

-----------------------------------------------------------------------------
(* Click interpretation *)

CouldNotInterpret == << "Could", "not", "interpret", "click" >>

\* The text holds no "{" followed by a "}", or what lies from its first "{" to its
\* last "}" is not the text of one object.
Unreadable(text) == jsonMatch(text) = << >> \/ ~parses(jsonMatch(text))

\* C11: when the vision model's text holds no JSON object, or the extracted text
\* does not parse, the decision is 'none' with the reason 'Could not interpret
\* click', and handleClick ends with loading false, error null and history,
\* historyIndex, currentUrl and currentImage as it found them.
C11_UnreadableClick ==
    [][ \A t \in TaskIds :
          (ClickContinue(t) /\ Unreadable(tasks[t].text)) =>
             /\ tasks[t].decision.action = "none"
             /\ tasks[t].decision.reason = CouldNotInterpret
             /\ InFlight(World') = {}
             /\ ~state'.loading
             /\ state'.error = Null
             /\ state'.status = CouldNotInterpret
             /\ history' = tasks[t].pre.history
             /\ historyIndex' = tasks[t].pre.historyIndex
             /\ state'.currentUrl = tasks[t].pre.currentUrl
             /\ state'.currentImage = tasks[t].pre.currentImage ]_vars

\* A click on a loaded page has ended on a text that could not be read.
C11_Witness ==
    /\ Quiet
    /\ state.status = CouldNotInterpret
    /\ ~state.loading
    /\ state.usage.clickInterpretations = 1
    /\ Len(history) = 1

\* The places of a text where a JSON decision object stands
ObjectsAt(text) ==
    { i \in 1..(Len(text) - 2) :
        text[i] = "{" /\ text[i + 1] \in Bodies /\ text[i + 2] = "}" }

FirstObject(text) ==
    LET i == CHOOSE k \in ObjectsAt(text) : \A j \in ObjectsAt(text) : k <= j
    IN  Object(text[i + 1])

\* C12: for every text of the vision model that holds at least one JSON
\* decision object, with any text before and after it, the decision handleClick
\* acts on is the one of the first object of the text.
C12_FirstObject ==
    \A t \in TaskIds :
        (tasks[t].pc = "decided" /\ ObjectsAt(tasks[t].text) # {}) =>
            tasks[t].decision = FirstObject(tasks[t].text)

-----------------------------------------------------------------------------
(* Scrolling *)

\* C4: from a loaded page at scrollIndex 0, N calls of scrollDown followed by N
\* calls of scrollUp end at scrollIndex 0 with the image the page showed, which is
\* scrollStack[0], and no generation request is sent during the scrollUp calls.
C4_ScrollReplay ==
    /\ replay.phase = "up" => requests = replay.requests
    /\ (replay.phase = "up" /\ replay.ups = replay.downs) =>
          /\ state.scrollIndex = 0
          /\ state.currentImage = replay.orig
          /\ At(scrollStack, 0) = replay.orig

\* C8: in every reachable state scrollIndex < scrollDepth and scrollDepth is the
\* length of scrollStack.
C8_ScrollInvariant ==
    /\ state.scrollIndex < state.scrollDepth
    /\ state.scrollDepth = Len(scrollStack)

\* C21: scrollUp at scrollIndex = k > 0 sets scrollIndex to k-1 and currentImage
\* to scrollStack[k-1], sends no generation request and issues no fetch, and
\* leaves scrollStack, scrollDepth, history, historyIndex, the cache and the usage
\* counters as they were; at scrollIndex = 0 it changes nothing.
C21_ScrollUpFrame ==
    [][ ScrollUp =>
          /\ requests' = requests /\ fetches' = fetches /\ visions' = visions
          /\ InFlight(World') = {}
          /\ scrollStack' = scrollStack
          /\ state'.scrollDepth = state.scrollDepth
          /\ history' = history /\ historyIndex' = historyIndex
          /\ imageCache' = imageCache
          /\ state'.usage = state.usage
          /\ IF state.scrollIndex > 0
             THEN /\ state'.scrollIndex = state.scrollIndex - 1
                  /\ state'.currentImage = At(scrollStack, state.scrollIndex - 1)
             ELSE World' = World ]_vars

\* scrollUp has just been called at scrollIndex 1 of a stack of two images.
C21_Witness ==
    /\ replay.phase = "up" /\ replay.ups = 1
    /\ state.scrollIndex = 0
    /\ Len(scrollStack) = 2
    /\ state.currentImage = scrollStack[1]
    /\ sessionImage = scrollStack[1]

\* A page is displayed: scrollDown's guard (browser.ts:957-959) lets the call in.
Displayed(w) ==
    /\ ~Falsy(w.state.currentUrl)
    /\ ~Falsy(w.state.currentApiData)
    /\ ~NoImage(w.state.currentImage)

\* The generation request of the scrollDown call of task t is sent in this step.
ScrollRequestSent(t) ==
    /\ tasks[t].pc # "gen"
    /\ tasks'[t].pc = "gen"
    /\ tasks'[t].op = "scrollDown"

\* The scrollDown call of task t gets its answer in this step.
ScrollAnswered(t) == tasks[t].op = "scrollDown" /\ GenReturns(t)

\* C22: scrollDown on a displayed page at scrollIndex = k: if k+1 is an index of
\* scrollStack it shows scrollStack[k+1], sends no generation request and leaves
\* the stack alone; otherwise it sends one generation request with the current
\* image as continuity image and the scroll framing, and on success appends one
\* image, sets scrollIndex = k+1 and scrollDepth to the new length of the stack,
\* while on failure scrollStack, scrollIndex and currentImage are as before.
C22_ScrollDown ==
    [][ /\ (ScrollDown /\ Displayed(World)) =>
             IF state.scrollIndex + 1 < Len(scrollStack)
             THEN /\ state'.currentImage = scrollStack[state.scrollIndex + 2]
                  /\ state'.scrollIndex = state.scrollIndex + 1
                  /\ requests' = requests
                  /\ scrollStack' = scrollStack
                  /\ InFlight(World') = {}
             ELSE /\ InFlight(World') # {}
                  /\ scrollStack' = scrollStack
                  /\ state'.scrollIndex = state.scrollIndex
                  /\ state'.currentImage = state.currentImage
        /\ \A t \in TaskIds :
             /\ ScrollRequestSent(t) =>
                   /\ requests' = tasks'[t].pre.requests + 1
                   /\ tasks'[t].request.session = tasks'[t].pre.currentImage
                   /\ tasks'[t].request.prompt[2] = "scroll"
             /\ ScrollAnswered(t) =>
                   /\ requests' = tasks[t].pre.requests + 1
                   /\ IF state'.status[1] = "Scroll position"
                      THEN /\ scrollStack' = Append(tasks[t].pre.scrollStack,
                                                    Image(tasks[t].req))
                           /\ state'.currentImage = Image(tasks[t].req)
                           /\ state'.scrollIndex = tasks[t].pre.scrollIndex + 1
                           /\ state'.scrollDepth = Len(scrollStack')
                      ELSE /\ scrollStack' = tasks[t].pre.scrollStack
                           /\ state'.scrollIndex = tasks[t].pre.scrollIndex
                           /\ state'.currentImage = tasks[t].pre.currentImage
                           /\ state'.error # Null ]_vars

\* A scrollDown has appended its image to the page's, and a second scrollDown has
\* failed with a provider error and left the stack, the index and the image.
C22_Witness ==
    /\ Quiet
    /\ Len(scrollStack) = 2
    /\ state.scrollIndex = 1
    /\ state.scrollDepth = 2
    /\ state.currentImage = scrollStack[2]
    /\ requests = 3
    /\ state.usage.imageGenerations = 2
    /\ state.status[1] = "Error scrolling"

-----------------------------------------------------------------------------
(* goBack and goForward *)

\* What a move to the entry at index leaves
MovedTo(index) ==
    LET entry == history[index + 1]
    IN  /\ historyIndex' = index
        /\ state'.currentUrl = entry.url
        /\ state'.currentImage = entry.image
        /\ state'.currentApiData = entry.apiData
        /\ state'.scrollIndex = 0
        /\ state'.scrollDepth = 1
        /\ scrollStack' = << entry.image >>
        /\ sessionImage' = entry.image
        /\ history' = history

\* C9: goBack with historyIndex > 0 and goForward with historyIndex below the last
\* index move historyIndex by one and restore that entry (url, image, data, scroll
\* position 0 of 1, scrollStack = [image], sessionImage = image); out of bounds
\* they change nothing; the history list is untouched either way.
C9_BackForward ==
    [][ /\ GoBack => IF historyIndex > 0 THEN MovedTo(historyIndex - 1)
                                           ELSE World' = World
        /\ GoForward => IF historyIndex < Len(history) - 1 THEN MovedTo(historyIndex + 1)
                                                             ELSE World' = World ]_vars

\* goForward has moved to the second entry, after a goBack to the first, whose
\* image is another.
C9_Witness ==
    /\ state.status = << "Navigated forward" >>
    /\ historyIndex = 1
    /\ scrollStack = << history[2].image >>
    /\ history[1].image # history[2].image

-----------------------------------------------------------------------------
(* Termination.  Every external call (fetch, reference images, provider, image
   load) returns or fails, and a continuation that can run does run: the answer
   steps are taken whenever one is due.  The user's calls are not forced. *)

Answers ==
    \E t \in TaskIds :
        \/ FetchReturns(t)
        \/ RefsReturn(t)
        \/ GenReturns(t)
        \/ DrawReturns(t)
        \/ VisionReturns(t)
        \/ ClickContinue(t)

\* The calls that await an answer
Calls ==
    \/ \E url \in Urls, freshStart \in BOOLEAN : Navigate(url, freshStart)
    \/ ScrollDown
    \/ Rerender
    \/ \E c \in Coords : HandleClick(c[1], c[2])

NextFair == Calls \/ Answers

SpecFair == Init /\ [][NextFair]_vars /\ WF_vars(Answers)

\* A handleClick call is running (its navigate call included).
Clicking == \E t \in TaskIds : tasks[t].op = "handleClick" \/ tasks[t].click

\* C23: every handleClick call eventually leaves loading = false, for every JSON
\* object the vision model can return (any value or absence of the action and
\* url fields).
C23_ClickSettles == Clicking ~> ~state.loading

\* A navigate, scrollDown or rerender call is awaiting an answer.
Generating == \E t \in TaskIds : tasks[t].op \in { "navigate", "scrollDown", "rerender" }

\* The call is over with loading false, and the image it asked for is displayed
\* or the error is set.
Settled ==
    /\ Quiet
    /\ ~state.loading
    /\ \/ state.error # Null
       \/ /\ ~NoImage(state.currentImage)
          /\ state.status[1] \in { "Page loaded", "Scroll position", "Page re-rendered" }

\* C24: every navigate, scrollDown and rerender call eventually settles with
\* loading = false, with the new image displayed or with error set.
C24_CallsSettle == Generating ~> Settled

\* A rerender of a loaded page has failed with a provider error and is over.
C24_Witness ==
    /\ Quiet
    /\ ~state.loading
    /\ requests = 2
    /\ state.usage.imageGenerations = 1
    /\ state.status[1] = "Error re-rendering"
    /\ state.error = QuotaError

-----------------------------------------------------------------------------
(* The displayed page, the history and the scroll stack *)

\* C19: whenever no action is in flight and the history is not empty, currentUrl
\* and currentApiData are the url and apiData of history[historyIndex], after
\* successful and after failed actions alike.
C19_CurrentEntry ==
    (Quiet /\ Len(history) > 0) =>
        /\ state.currentUrl = history[historyIndex + 1].url
        /\ state.currentApiData = history[historyIndex + 1].apiData

\* C20: whenever no action is in flight and currentImage is not null,
\* currentImage is scrollStack[scrollIndex], so that scrollUp and the replay path
\* of scrollDown set currentImage to an image the stack holds.
C20_CurrentInStack ==
    (Quiet /\ ~NoImage(state.currentImage)) =>
        state.currentImage = At(scrollStack, state.scrollIndex)

\* The rerender call of task t gets its answer in this step.
RerenderAnswered(t) == tasks[t].op = "rerender" /\ GenReturns(t)

\* C26: a successful rerender replaces currentImage, sets scrollStack to the one
\* new image with scrollIndex 0 and scrollDepth 1, and leaves the history list,
\* historyIndex, currentUrl and currentApiData unchanged; a failed rerender leaves
\* currentImage and scrollStack unchanged as well.
C26_RerenderFrame ==
    [][ \A t \in TaskIds :
          RerenderAnswered(t) =>
             /\ history' = tasks[t].pre.history
             /\ historyIndex' = tasks[t].pre.historyIndex
             /\ state'.currentUrl = tasks[t].pre.currentUrl
             /\ state'.currentApiData = tasks[t].apiData
             /\ state'.currentApiData = state.currentApiData
             /\ IF state'.status = << "Page re-rendered" >>
                THEN /\ state'.currentImage = Image(tasks[t].req)
                     /\ state'.currentImage # tasks[t].pre.currentImage
                     /\ scrollStack' = << Image(tasks[t].req) >>
                     /\ state'.scrollIndex = 0
                     /\ state'.scrollDepth = 1
                ELSE /\ state'.currentImage = tasks[t].pre.currentImage
                     /\ scrollStack' = tasks[t].pre.scrollStack
                     /\ state'.scrollIndex = tasks[t].pre.scrollIndex ]_vars

\* A page scrolled down once has been re-rendered: the stack is the new image
\* alone and the history entry still holds the page's first image.
C26_Witness ==
    /\ Quiet
    /\ state.status = << "Page re-rendered" >>
    /\ requests = 3
    /\ scrollStack = << Image(3) >>
    /\ state.currentImage = Image(3)
    /\ state.scrollIndex = 0 /\ state.scrollDepth = 1
    /\ Len(history) = 1 /\ history[1].image = Image(1)

\* The cache entry of the displayed url under the current model and style
CurrentEntry(w) ==
    cacheLookup(w.imageCache,
                getCacheKey(w.state.currentUrl, w.currentModelKey, w.currentStyle))

\* C27: a successful rerender after a style change stores a cache entry under the
\* key of (currentUrl, current model, new style), holding the new image, so that
\* a later navigate to that url under the new style is a cache hit.
C27_RerenderCaches ==
    [][ \A t \in TaskIds :
          (RerenderAnswered(t) /\ state'.status = << "Page re-rendered" >>
             /\ ~CurrentEntry(World).hit) =>
                /\ CurrentEntry(World').hit
                /\ CurrentEntry(World').image = state'.currentImage ]_vars

\* The status a successful goBack, goForward, scrollUp, scrollDown or rerender
\* leaves (browser.ts:912, 929, 949, 969, 998, 1034)
SuccessStatus ==
    { "Navigated back", "Navigated forward", "Scroll position", "Page re-rendered" }

\* C25: whenever goBack, goForward, scrollUp, scrollDown or rerender has completed
\* successfully, state.error is null: the page such an action shows never comes
\* with the error of an earlier failed action.
C25_NoStaleError == state.status[1] \in SuccessStatus => state.error = Null

-----------------------------------------------------------------------------
(* The page as main.ts drives the controller: the handlers of the Go, back,
   forward and scroll buttons (main.ts:245-321) call the controller whenever the
   user acts, whether or not a call is in flight.  Clicks on the canvas are
   left to Spec. *)

SomeIdle == \E t \in TaskIds : tasks[t].pc = "idle"

\* goBtn, main.ts:262-265
UiNavigate(url) ==
    /\ ~Running
    /\ SomeIdle
    /\ CanNavigate(url)
    /\ Becomes(navigate(World, NewTask, url, TRUE, FALSE))
    /\ replay' = NoReplay

\* backBtn, main.ts:245
UiGoBack == ~Running /\ Becomes(goBack(World)) /\ replay' = NoReplay

\* forwardBtn, main.ts:246
UiGoForward == ~Running /\ Becomes(goForward(World)) /\ replay' = NoReplay

\* scrollUpBtn, main.ts:310-312
UiScrollUp == ~Running /\ Becomes(scrollUp(World)) /\ replay' = NoReplay

\* scrollDownBtn and scrollTrack, main.ts:314-321
UiScrollDown ==
    /\ ~Running
    /\ SomeIdle
    /\ CanGenerate \/ state.scrollIndex + 1 < Len(scrollStack)
    /\ Becomes(scrollDown(World, NewTask))
    /\ replay' = NoReplay

\* A step in which a handler of the page calls the controller
UiCall ==
    \/ \E url \in Urls : UiNavigate(url)
    \/ UiGoBack
    \/ UiGoForward
    \/ UiScrollUp
    \/ UiScrollDown

NextUi ==
    \/ UiCall
    \/ \E t \in TaskIds : FetchReturns(t)
    \/ \E t \in TaskIds : RefsReturn(t)
    \/ \E t \in TaskIds : GenReturns(t)

SpecUi == Init /\ [][NextUi]_vars

\* C17: while state.loading is true the page starts no further controller
\* action, so that at most one action is in flight at any time.
C17_OneInFlight == Cardinality(InFlight(World)) <= 1

\* The image of the navigate call of task t arrives.
NavigateResolves(t) ==
    /\ GenReturns(t)
    /\ tasks[t].op = "navigate"
    /\ \E usageMetadata \in Metas(tasks[t].provider) :
          Becomes(generated(World, t, TRUE, usageMetadata))

\* The current history entry was fetched by a navigate call to another url that
\* started after the call of task t (its fetch has the higher number) and has
\* resolved already, and currentUrl is the url that call set.
LaterResolved(t) ==
    /\ InFlight(World) = { t }
    /\ historyIndex >= 0
    /\ LET entry == history[historyIndex + 1]
       IN  /\ entry.apiData[2] > tasks[t].fetchNo
           /\ entry.url # tasks[t].url
           /\ state.currentUrl = entry.url

\* C18: the controller does not discard stale results: when two navigate calls
\* to different urls overlap and the one started first resolves last, its image
\* becomes the displayed image and its entry is appended to the history, while
\* currentUrl stays the url the later call set, different from the url of the
\* current history entry.
C18_StaleOverwrite ==
    [][ \A t \in TaskIds :
          (LaterResolved(t) /\ NavigateResolves(t)) =>
             /\ InFlight(World') = {}
             /\ state'.currentImage = Image(tasks[t].req)
             /\ history' = Append(SubSeq(history, 1, historyIndex + 1),
                                  [ url |-> tasks[t].url, apiData |-> tasks[t].apiData,
                                    image |-> Image(tasks[t].req) ])
             /\ historyIndex' = Len(history') - 1
             /\ state'.currentUrl = state.currentUrl
             /\ state'.currentUrl # history'[historyIndex' + 1].url ]_vars

\* Two overlapping navigate calls have resolved, the one that fetched first last:
\* the current entry holds the first fetch and currentUrl is the other entry's url.
C18_Witness ==
    /\ Quiet
    /\ Len(history) = 2 /\ historyIndex = 1
    /\ history[1].apiData[2] = 2
    /\ history[2].apiData[2] = 1
    /\ state.currentImage = history[2].image
    /\ state.currentUrl = history[1].url
    /\ state.currentUrl # history[2].url
    /\ state.error = Null

\* C32: in every reachable state -1 <= historyIndex < Len(history), and
\* historyIndex is -1 exactly when the history is empty, also while goBack and
\* goForward are called with navigations in flight.
C32_HistoryIndexInRange ==
    /\ -1 <= historyIndex
    /\ historyIndex < Len(history)
    /\ (historyIndex = -1) <=> (history = << >>)

\* goBack was called while a navigate awaits its image: the first of two entries
\* is current and the call is still in flight.
C32_Witness ==
    /\ \E t \in TaskIds : tasks[t].op = "navigate" /\ tasks[t].pc = "gen"
    /\ state.status = << "Navigated back" >>
    /\ historyIndex = 0
    /\ Len(history) = 2

\* C34: loading is true in every state in which a navigate, scrollDown, rerender
\* or handleClick call awaits an external answer, also when two calls overlap and
\* one of them has settled.
C34_LoadingWhileAwaiting ==
    (\E t \in TaskIds : tasks[t].pc \in { "fetch", "refs", "gen", "draw", "vision" })
        => state.loading

-----------------------------------------------------------------------------
(* The settings changed while a navigation is in flight: the handlers of the
   model and style selectors (main.ts:270-285) call setModel and setStyle
   whenever the user changes them.  Navigations are started one at a time. *)

\* styleSelect / customStyleInput, main.ts:274-306
UiSetStyle(style) == ~Running /\ Becomes(setStyle(World, style)) /\ replay' = NoReplay

\* modelSelect, main.ts:270-272
UiSetModel(model) == ~Running /\ Becomes(setModel(World, model)) /\ replay' = NoReplay

\* The two options of the model selector, main.ts:67-70
SelectModels == { << "flash" >>, << "pro" >> }

NextSettings ==
    \/ \E url \in Urls, freshStart \in BOOLEAN : Navigate(url, freshStart)
    \/ \E style \in Styles : UiSetStyle(style)
    \/ \E model \in SelectModels : UiSetModel(model)
    \/ \E t \in TaskIds : FetchReturns(t)
    \/ \E t \in TaskIds : RefsReturn(t)
    \/ \E t \in TaskIds : GenReturns(t)

SpecSettings == Init /\ [][NextSettings]_vars

\* C28: every cache entry stored under the key of (url, model, style) holds an
\* image that was generated with that model and that style, also when setStyle
\* or setModel is called while the navigation that writes the entry is in flight.
C28_CacheEntryMatchesKey ==
    [][ \A t \in TaskIds :
          (tasks[t].pc = "gen" /\ NavigateResolves(t)) =>
             /\ tasks[t].cacheKey \in DOMAIN imageCache'
             /\ imageCache'[tasks[t].cacheKey].image = Image(tasks[t].req)
             /\ tasks[t].cacheKey = getCacheKey(tasks[t].url, tasks[t].request.model,
                                                tasks[t].request.prompt[1]) ]_vars

\* C31: nothing is retried.  A navigate, scrollDown or rerender call (and a click
\* with the navigate it makes) sends at most one image-generation request, and
\* the step in which a fetch or a provider call fails, an answer without an image
\* included, sends no request of any kind and leaves no call in flight: the next
\* request needs a new call.
C31_NoRetry ==
    [][ /\ \A t \in TaskIds :
             tasks'[t].pc # "idle" => requests' <= tasks'[t].pre.requests + 1
        /\ \A t \in TaskIds :
             (tasks[t].pc # "idle" /\ Fails(t)) =>
                /\ requests' = requests
                /\ fetches' = fetches
                /\ visions' = visions
                /\ InFlight(World') = {} ]_vars

\* The only generation request of a first navigate was answered without an image:
\* one request was sent, it was counted, and nothing is in flight.
C31_Witness ==
    /\ Quiet
    /\ state.error = NoImageGemini
    /\ history = << >>
    /\ requests = 1
    /\ fetches = 1
    /\ state.usage.imageGenerations = 1

\* C33: the scroll stack grows only where scrollDown gets its generated image.  A
\* step that changes scrollStack either is the answer to a scrollDown's
\* generation request and appends that one image, or leaves a stack of length 0
\* or 1; and a scrollUp call sends no generation request and starts no call.
C33_StackGrowth ==
    [][ /\ scrollStack' # scrollStack =>
             \/ Len(scrollStack') <= 1
             \/ \E t \in TaskIds :
                   /\ tasks[t].op = "scrollDown"
                   /\ tasks[t].pc = "gen"
                   /\ tasks'[t].pc = "idle"
                   /\ scrollStack' = Append(scrollStack, Image(tasks[t].req))
        /\ ScrollUp => (requests' = requests /\ tasks' = tasks) ]_vars

\* Two scrollDown calls generated a second and a third frame, and a scrollUp went
\* back to the second.
C33_Witness ==
    /\ Quiet
    /\ Len(scrollStack) = 3
    /\ state.scrollIndex = 1
    /\ state.status[1] = "Scroll position"
    /\ requests = 3

\* C38: when calls do not overlap, the prompt of a generation request carries a
\* continuity framing only when the request carries a session image, and then
\* exactly one: the scroll framing in a scrollDown, else the click framing in a
\* navigation made by a click, else the generic framing; so the scroll framing
\* is used in no other call than a scrollDown and the click framing in no other
\* call than a click's navigation.
C38_Framing ==
    \A t \in TaskIds :
       tasks[t].pc = "gen" =>
          tasks[t].request.prompt[2] =
             IF tasks[t].request.session = Null THEN "none"
             ELSE IF tasks[t].op = "scrollDown" THEN "scroll"
             ELSE IF tasks[t].click THEN "click"
             ELSE "generic"

\* After a click was interpreted and a second page was loaded, a rerender awaits
\* its image: its request carries the session image and the generic framing.
C38_Witness ==
    \E t \in TaskIds :
       /\ tasks[t].pc = "gen"
       /\ tasks[t].op = "rerender"
       /\ tasks[t].request.session # Null
       /\ tasks[t].request.prompt[2] = "generic"
       /\ visions = 1
       /\ Len(history) = 2

\* C39: a history entry is immutable once created.  In every step each entry of
\* the history either stays at its place with the url, apiData and image it has,
\* or is a forward entry (beyond historyIndex) dropped by a navigate that loads
\* its page and pushes its own entry right after the current one.
C39_EntriesImmutable ==
    [][ \A i \in 1..Len(history) :
           \/ i <= Len(history') /\ history'[i] = history[i]
           \/ /\ i > historyIndex + 1
              /\ Len(history') = historyIndex + 2
              /\ state'.status[1] \in { "Page loaded", "Page loaded (cached)" } ]_vars

\* The second of two pages was re-rendered: its entry still holds the image it
\* was pushed with, which is no longer the image on display.
C39_Witness ==
    /\ Quiet
    /\ state.status = << "Page re-rendered" >>
    /\ Len(history) = 2
    /\ historyIndex = 1
    /\ history[2].image = Image(2)
    /\ state.currentImage = Image(3)

\* C29: whenever no action is in flight, sessionImage is null or is the image
\* on display (state.currentImage), after a successful action and after a failed
\* one, navigations started by a click included.
C29_SessionIsCurrent ==
    Quiet => (sessionImage = Null \/ sessionImage = state.currentImage)

-----------------------------------------------------------------------------
(* The credentials: a controller constructed with any keys and any model
   (browser.ts:522-532), then setModel, setGeminiKey and setOpenAIKey calls
   between navigations. *)

InitCred ==
    /\ \E geminiKey \in Keys, openaiKey \in Keys, model \in ImageModels :
          Constructed(geminiKey, openaiKey, model)
    /\ InitNoKey
    /\ InitNoUsage
    /\ InitNoHn

SetGeminiKey(apiKey) ==
    /\ Quiet
    /\ Becomes(setGeminiKey(World, apiKey))
    /\ replay' = NoReplay

SetOpenAIKey(apiKey) ==
    /\ Quiet
    /\ Becomes(setOpenAIKey(World, apiKey))
    /\ replay' = NoReplay

NextCred ==
    \/ \E url \in Urls : Navigate(url, TRUE)
    \/ \E model \in ImageModels : SetModel(model)
    \/ \E apiKey \in Keys : SetGeminiKey(apiKey)
    \/ \E apiKey \in Keys : SetOpenAIKey(apiKey)
    \/ \E t \in TaskIds : FetchReturns(t)
    \/ \E t \in TaskIds : RefsReturn(t)
    \/ \E t \in TaskIds : GenReturns(t)

SpecCred == InitCred /\ [][NextCred]_vars

\* The credential of a provider is configured
Configured(provider) == IF provider = "openai" THEN openaiApiKey ELSE geminiAI

\* C35: in every reachable state, from construction on and after any sequence
\* of setModel, setGeminiKey and setOpenAIKey calls, the provider of the selected
\* image model has a configured credential.
C35_CredentialConfigured == Configured(Provider(currentModelKey))

\* C35, amended: the selected model changes only to a model whose provider has a
\* configured credential, and a generation request is sent only while the
\* provider of the selected model has one (the constructor and the key setters
\* check nothing, and a generation without the credential fails with
\* '... API key not configured').
C35_SetModelChecks ==
    [][ /\ currentModelKey' # currentModelKey => Configured(Provider(currentModelKey'))
        /\ requests' # requests => Configured(Provider(currentModelKey)) ]_vars

\* After a page generated with flash, an OpenAI key was set, gpt-image was
\* selected and the same url was generated again with it.
C35_Witness ==
    /\ Quiet
    /\ currentModelKey = << "gpt-image" >>
    /\ openaiApiKey
    /\ getCacheKey(EspnUrl, << "flash" >>, StyleModern) \in DOMAIN imageCache
    /\ getCacheKey(EspnUrl, << "gpt-image" >>, StyleModern) \in DOMAIN imageCache

-----------------------------------------------------------------------------
(* An OpenAI model: a controller constructed with an OpenAI key only and
   'gpt-image' as its model, called as in Spec.  Clicks are then interpreted by
   the OpenAI vision model (browser.ts:1531-1537). *)

InitOpenAI ==
    /\ Constructed(<< >>, << "key" >>, << "gpt-image" >>)
    /\ InitNoKey
    /\ InitNoUsage
    /\ InitNoHn

SpecOpenAI == InitOpenAI /\ [][Next]_vars

\* C37: with an OpenAI model selected, a generation request goes to the edit
\* endpoint exactly when it carries a session image or at least one fetched
\* reference image, and to the plain generation endpoint otherwise; so the
\* request of a fresh navigation without reference images goes to the plain
\* endpoint, and the request of a navigation made by a click or of a scrollDown
\* goes to the edit endpoint.
C37_OpenAIEndpoint ==
    \A t \in TaskIds :
       (tasks[t].pc = "gen" /\ tasks[t].provider = "openai") =>
          LET request == tasks[t].request
          IN  /\ request.endpoint \in { "edits", "generations" }
              /\ request.endpoint = "edits" <=> (request.session # Null \/ request.refs > 0)
              /\ (tasks[t].op = "navigate" /\ tasks[t].fresh /\ request.refs = 0)
                    => request.endpoint = "generations"
              /\ (tasks[t].click \/ tasks[t].op = "scrollDown")
                    => request.endpoint = "edits"

\* The request of a navigation made by a click, to a url without reference
\* images, is awaited from the edit endpoint.
C37_Witness ==
    \E t \in TaskIds :
       /\ tasks[t].pc = "gen"
       /\ tasks[t].provider = "openai"
       /\ tasks[t].click
       /\ tasks[t].request.refs = 0
       /\ tasks[t].request.endpoint = "edits"
       /\ tasks[t].request.session = tasks[t].imageWithPointer

-----------------------------------------------------------------------------

(* getCacheKey on its own: two triples of a url, a model key and a style (urls
   and free-text styles are strings that may hold the separator and a model's
   name, browser.ts:563-571), and the keys getCacheKey returns for them. *)

KeyChars == { "|", "flash" }

Strings(n) == UNION { [ 1..k -> KeyChars ] : k \in 0..n }

Triples == Strings(MaxKeyLen) \X ImageModels \X Strings(MaxKeyLen)

InitKey ==
    /\ InitController
    /\ keyIn \in Triples \X Triples
    /\ keyOut = << >>
    /\ InitNoUsage
    /\ InitNoHn

ComputeKeys ==
    /\ keyOut = << >>
    /\ keyOut' = << getCacheKey(keyIn[1][1], keyIn[1][2], keyIn[1][3]),
                    getCacheKey(keyIn[2][1], keyIn[2][2], keyIn[2][3]) >>
    /\ UNCHANGED << ctlVars, keyIn, usageVars, hnVars >>

NextKey == ComputeKeys

SpecKey == InitKey /\ [][NextKey]_vars

\* The components in which two triples differ
Differing(a, b) == { i \in 1..3 : a[i] # b[i] }

\* C3: two triples that differ in exactly one of url, model and style get
\* different keys from getCacheKey.
C3_OneComponentChangesKey ==
    (keyOut # << >> /\ Cardinality(Differing(keyIn[1], keyIn[2])) = 1)
        => keyOut[1] # keyOut[2]

\* Two triples that differ only in a style holding the separator have got their keys.
C3_Witness ==
    /\ keyOut # << >>
    /\ Differing(keyIn[1], keyIn[2]) = { 3 }
    /\ keyIn[1][3] = << "|" >>
    /\ keyIn[2][3] = << "|", "flash" >>

\* C36: getCacheKey is injective over whole triples: two different (url, model,
\* style) triples never get the same key, for urls and free-text styles that may
\* hold the separator '|'.
C36_KeyInjective ==
    (keyOut # << >> /\ keyIn[1] # keyIn[2]) => keyOut[1] # keyOut[2]

-----------------------------------------------------------------------------
(* trackUsage on its own: one call, with the type, the provider of the current
   model, the pricing entries it reads, the usage metadata of the response and
   the figures it starts from.  Costs are in billionths of a dollar. *)

TokenCounts == { 0, 500, 1000 }

\* usageMetadata of a Gemini response (browser.ts:762-764)
GeminiMetas ==
    { [ NoMeta EXCEPT !.present = TRUE, !.promptTokenCount = a, !.candidatesTokenCount = b ] :
        a \in TokenCounts, b \in TokenCounts }

\* usage of an OpenAI response (browser.ts:766-768)
OpenAIMetas ==
    { [ NoMeta EXCEPT !.present = TRUE, !.input_tokens = a, !.output_tokens = b,
                      !.text_tokens = c, !.image_tokens = d ] :
        a \in TokenCounts, b \in TokenCounts, c \in TokenCounts, d \in TokenCounts }

UsageMetas == { NoMeta } \cup GeminiMetas \cup OpenAIMetas

\* A pricing entry of so many dollars per million input and output tokens
PerMillion(input, output) ==
    [ input |-> input * 1000, output |-> output * 1000,
      imageInput |-> input * 1000, imageOutput |-> output * 1000 ]

PricingEntries == { PRICING(key) : key \in ImageModels } \cup { PerMillion(1, 2) }

TextPricingEntries == { PRICING(<< "text" >>), PRICING(<< "gpt-5-mini" >>), PerMillion(1, 2) }

\* Figures of a session that has generated an image before
SomeUsage ==
    [ imageGenerations |-> 1, clickInterpretations |-> 0, totalInputTokens |-> 1000,
      totalOutputTokens |-> 500, estimatedCost |-> 15075000 ]

InitUsage ==
    /\ InitController
    /\ InitNoKey
    /\ InitNoHn
    /\ usageIn \in [ type : { "image", "text" }, provider : { "gemini", "openai" },
                     pricing : PricingEntries, textPricing : TextPricingEntries,
                     usageMetadata : UsageMetas, usage : { NoUsage, SomeUsage } ]
    /\ usageOut = [ done |-> FALSE, usage |-> NoUsage ]

TrackUsage ==
    /\ ~usageOut.done
    /\ usageOut' = [ done |-> TRUE,
                     usage |-> trackUsagePriced(usageIn.usage, usageIn.type, usageIn.provider,
                                                usageIn.pricing, usageIn.textPricing,
                                                usageIn.usageMetadata) ]
    /\ UNCHANGED << ctlVars, keyVars, hnVars, usageIn >>

NextUsage == TrackUsage

SpecUsage == InitUsage /\ [][NextUsage]_vars

\* An absent count is 0 here; a || b is the first of the two that is present.
FirstPresent(a, b) == IF a # 0 THEN a ELSE b

\* The token kinds a call is charged for: the count of each and its unit price
Charges(in) ==
    LET m == in.usageMetadata
        inputTokens == FirstPresent(m.promptTokenCount, m.input_tokens)
        outputTokens == FirstPresent(m.candidatesTokenCount, m.output_tokens)
    IN  IF in.type = "text"
        THEN { [ kind |-> "input", tokens |-> inputTokens, price |-> in.textPricing.input ],
               [ kind |-> "output", tokens |-> outputTokens, price |-> in.textPricing.output ] }
        ELSE IF in.provider = "openai"
        THEN { [ kind |-> "textInput", tokens |-> m.text_tokens, price |-> in.pricing.input ],
               [ kind |-> "imageInput", tokens |-> m.image_tokens,
                 price |-> in.pricing.imageInput ],
               [ kind |-> "imageOutput", tokens |-> outputTokens,
                 price |-> in.pricing.imageOutput ] }
        ELSE { [ kind |-> "input", tokens |-> inputTokens, price |-> in.pricing.input ],
               [ kind |-> "imageOutput", tokens |-> outputTokens,
                 price |-> in.pricing.imageOutput ] }

RECURSIVE Total(_)
Total(charges) ==
    IF charges = {} THEN 0
    ELSE LET c == CHOOSE x \in charges : TRUE
         IN  c.tokens * c.price + Total(charges \ { c })

\* 1000 input and 500 output tokens of a click interpretation priced at 1 and
\* 2 dollars per million tokens
Scenario4(in) ==
    /\ in.type = "text"
    /\ in.textPricing = PerMillion(1, 2)
    /\ in.usageMetadata = [ NoMeta EXCEPT !.present = TRUE, !.promptTokenCount = 1000,
                                          !.candidatesTokenCount = 500 ]

\* C15: a trackUsage call adds to estimatedCost the sum, over the token kinds
\* it is charged for, of the count of that kind times the unit price of that kind
\* in the pricing entry it reads, an absent count adding nothing; 1000 input and
\* 500 output tokens at 1 and 2 dollars per million tokens add 0.002 dollars
\* (2 000 000 billionths).
C15_CostIncrement ==
    usageOut.done =>
        /\ usageOut.usage.estimatedCost - usageIn.usage.estimatedCost = Total(Charges(usageIn))
        /\ Scenario4(usageIn) =>
              usageOut.usage.estimatedCost - usageIn.usage.estimatedCost = 2 * 1000 * 1000

\* The call of scenario 4 has been made on figures that were not zero.
C15_Witness ==
    /\ usageOut.done
    /\ Scenario4(usageIn)
    /\ usageIn.usage = SomeUsage
    /\ usageOut.usage.estimatedCost = SomeUsage.estimatedCost + 2 * 1000 * 1000

-----------------------------------------------------------------------------
(* fetchHackerNews and processHNFrontPage on their own: the answer of
   topstories.json (ids 1..n), and for each of the first stories what its item
   request is answered with: the item, null (no such item), or a JSON body that
   is not an item (an error body; the response's status is not looked at,
   browser.ts:859-860). *)

TopStories == 15   \* browser.ts:855  ids.slice(0, 15)

HnFetchError == << "Failed to fetch HN stories" >>
HnItemError == << "Failed to fetch" >>

\* `https://hacker-news.firebaseio.com/v0/item/${id}.json`
ItemUrl(id) == << "https://hacker-news.firebaseio.com/v0/item/", id, ".json" >>

\* The item the API holds for an id
Item(id) ==
    [ kind |-> "item", hasId |-> TRUE, id |-> id, title |-> << "Story", ToString(id) >>,
      url |-> IF id % 2 = 0 THEN Null ELSE << "https://example.com/", ToString(id) >>,
      by |-> << "user" >>, score |-> id, descendants |-> 0, kids |-> id % 3 ]

\* A JSON body without the fields of an item, e.g. {"error": "Permission denied"}
ErrorBody ==
    [ kind |-> "error", hasId |-> FALSE, id |-> 0, title |-> Null, url |-> Null,
      by |-> Null, score |-> 0, descendants |-> 0, kids |-> 0 ]

\* The body null
NullBody == [ ErrorBody EXCEPT !.kind = "null" ]

AnswerKinds == { "item", "null", "error", "reject" }

\* What the item request of the i-th id is answered with
Answer(in, i) ==
    LET kind == IF i <= Len(in.answers) THEN in.answers[i] ELSE "item"
    IN  CASE kind = "item" -> Item(in.ids[i])
          [] kind = "null" -> NullBody
          [] OTHER -> ErrorBody

Rejects(in, i) == i <= Len(in.answers) /\ in.answers[i] = "reject"

\* stories.filter(Boolean)
RECURSIVE FilterBoolean(_)
FilterBoolean(stories) ==
    IF stories = << >> THEN << >>
    ELSE (IF Head(stories).kind = "null" THEN << >> ELSE << Head(stories) >>)
         \o FilterBoolean(Tail(stories))

\* processHNFrontPage, api-processors.ts:182-209
processHNFrontPage(stories) ==
    [ source |-> "Hacker News", type |-> "front_page",
      stories |-> [ i \in 1..Len(stories) |->
          LET story == stories[i]
          IN  [ id |-> story.id,     \* story.id || 0
                title |-> story.title, url |-> story.url, by |-> story.by,
                score |-> story.score,
                commentCount |-> IF story.descendants # 0 THEN story.descendants
                                                          ELSE story.kids,
                apiUrl |-> ItemUrl(IF story.hasId THEN ToString(story.id)
                                                  ELSE "undefined") ] ] ]

InitHn ==
    /\ InitController
    /\ InitNoKey
    /\ InitNoUsage
    /\ \E n \in 0..MaxIds, ok \in BOOLEAN :
          hnIn \in [ ok : { ok }, ids : { [ i \in 1..n |-> i ] },
                      answers : [ 1..(IF n < MaxOdd THEN n ELSE MaxOdd) -> AnswerKinds ] ]
    /\ hnOut = [ pc |-> "ids", ids |-> << >>, error |-> Null, stories |-> << >> ]

\* browser.ts:849-856: the ids arrive, or the request is refused
HnIdsReturn ==
    /\ hnOut.pc = "ids"
    /\ hnOut' = IF hnIn.ok
                 THEN [ hnOut EXCEPT !.pc = "stories",
                                     !.ids = Slice(hnIn.ids, TopStories) ]
                 ELSE [ hnOut EXCEPT !.pc = "failed", !.error = HnFetchError ]
    /\ UNCHANGED << ctlVars, keyVars, usageVars, hnIn >>

\* browser.ts:858-866: Promise.all over the item requests, then the processing
HnStoriesReturn ==
    /\ hnOut.pc = "stories"
    /\ hnOut' = IF \E i \in 1..Len(hnOut.ids) : Rejects(hnIn, i)
                 THEN [ hnOut EXCEPT !.pc = "failed", !.error = HnItemError ]
                 ELSE [ hnOut EXCEPT
                          !.pc = "done",
                          !.stories = processHNFrontPage(FilterBoolean(
                              [ i \in 1..Len(hnOut.ids) |-> Answer(hnIn, i) ])).stories ]
    /\ UNCHANGED << ctlVars, keyVars, usageVars, hnIn >>

NextHn == HnIdsReturn \/ HnStoriesReturn

SpecHn == InitHn /\ [][NextHn]_vars

\* C16: the listing fetchHackerNews returns, for any number of story ids in the
\* answer of topstories.json, has at most 15 stories, and each story's apiUrl is
\* 'https://hacker-news.firebaseio.com/v0/item/{id}.json' with the id of that
\* same story's id field.
C16_HnListing ==
    hnOut.pc = "done" =>
        /\ Len(hnOut.stories) <= 15
        /\ \A i \in 1..Len(hnOut.stories) :
              hnOut.stories[i].apiUrl = ItemUrl(ToString(hnOut.stories[i].id))

\* The item requests of the listed ids that were answered (fetch and res.json()
\* both resolved)
Succeeded == { i \in 1..Len(hnOut.ids) : ~Rejects(hnIn, i) }

\* C30: within the Hacker News story fetches, a sub-fetch that fails is skipped
\* on its own and the listing is composed from the sub-fetches that succeeded:
\* once topstories.json has been answered, a failing item request never fails
\* the whole fetch, and the finished listing has no more stories than item
\* requests that succeeded.  (fetchReferenceImages does skip a failing image on
\* its own, browser.ts:630-652; RefsReturn answers with any number of them.)
C30_SubFetchSkipped ==
    hnIn.ok =>
        /\ hnOut.pc # "failed"
        /\ hnOut.pc = "done" => Len(hnOut.stories) <= Cardinality(Succeeded)

====
